---------------------------- MODULE Spec2Model ----------------------------
(***************************************************************************)
(* Model of the BRouter URL utilities of the Columbia County GTFS feed     *)
(* generator: src/src/brouter.py (URL extractors, generate_brouter_urls,   *)
(* update_stop_positions_from_url) and their callers in src/main.py.       *)
(*                                                                         *)
(* Text is modelled by its structure under the separators the code splits  *)
(* on: a parameter value is the list of its ';'-separated items, an item   *)
(* the list of its ','-separated fields, a field a token.  A network       *)
(* location is a sequence of one-character strings.  Coordinates are       *)
(* <<lon, lat>> pairs on an integer grid of metres.                        *)
(***************************************************************************)
EXTENDS Integers, Sequences, FiniteSets, TLC

VARIABLES
    pc,           \* position of the command: "start", "generating", "done"
    stops_csv,    \* the stop table file (stops.csv)
    nogos_csv,    \* the nogo table file (nogos.csv)
    guides_csv,   \* the guide table file (guides.csv)
    call,         \* arguments of the last update_stop_positions_from_url call
    pre,          \* the three files as they were when that call started
    result,       \* what that call returned (or that it raised)
    gen_in,       \* arguments of generate_brouter_urls
    gen_i,        \* number of trips the generator has consumed
    seen,         \* the generator's set of (shape_id, url) keys
    emitted,      \* the (identifier, url) pairs the generator has yielded
    url_in,       \* the URL handed to the extractors
    decoded,      \* what the extractors called so far returned for it
    cmd,          \* outcome of the update-stop-positions command
    straights_csv,\* the straights table file (straights.csv)
    loaded        \* what the annotation loaders called so far returned

vars == <<pc, stops_csv, nogos_csv, guides_csv, call, pre, result,
          gen_in, gen_i, seen, emitted, url_in, decoded, cmd, straights_csv,
          loaded>>

codec_vars == <<url_in, decoded>>

load_vars == <<straights_csv, loaded>>

-----------------------------------------------------------------------------
(* Sequences *)

Range(s) == {s[i] : i \in DOMAIN s}

SeqsUpTo(S, n) == UNION {[1..k -> S] : k \in 0..n}

RECURSIVE SelectIdx(_, _, _)
\* the elements of s whose index is not in drop, in order, from index i on
SelectIdx(s, drop, i) ==
    IF i > Len(s) THEN <<>>
    ELSE (IF i \in drop THEN <<>> ELSE <<s[i]>>) \o SelectIdx(s, drop, i + 1)

RECURSIVE SumSeq(_)
SumSeq(s) == IF s = <<>> THEN 0 ELSE Head(s) + SumSeq(Tail(s))

RECURSIVE Flatten(_)
Flatten(ss) == IF ss = <<>> THEN <<>> ELSE Head(ss) \o Flatten(Tail(ss))

Abs(x) == IF x < 0 THEN -x ELSE x

-----------------------------------------------------------------------------
(* Tokens: the text of one field.  "num" is a decimal number, "inf" a text  *)
(* float() reads as infinity, "str" any other text (s = "" is empty text).  *)

Num(n) == [k |-> "num", n |-> n, s |-> ""]
Str(s) == [k |-> "str", n |-> 0, s |-> s]
Inf == [k |-> "inf", n |-> 0, s |-> "inf"]

\* the value float('inf') in the integer grid
Infinity == 1000000

\* float(text) succeeds
IsFloat(t) == t.k \in {"num", "inf"}
ToFloat(t) == IF t.k = "inf" THEN Infinity ELSE t.n

\* "".split(';') is [''], and ''.split(',') is ['']
EmptyText == << <<Str("")>> >>


-----------------------------------------------------------------------------
(* URLs.  A URL is [scheme, netloc, query, fragment]: scheme is "" when the *)
(* text has none, netloc is the text between "//" and the path, query and   *)
(* fragment are the lists of their '&'-separated parts.  A part is          *)
(* [key, eq, value]: eq says whether the part holds an '=', value is the    *)
(* text after the first '='.                                                *)

Part(key, value) == [key |-> key, eq |-> TRUE, value |-> value]
BarePart(key) == [key |-> key, eq |-> FALSE, value |-> EmptyText]

\* a parameter that is not there (dict.get returns None)
None == <<>>

\* the text of a list of parts is not empty
HasText(parts) == parts # <<>> /\ parts # <<BarePart("")>>

Lower(c) ==
    CASE c = "B" -> "b" [] c = "R" -> "r" [] c = "O" -> "o" [] c = "U" -> "u"
      [] c = "T" -> "t" [] c = "E" -> "e" [] c = "D" -> "d" [] OTHER -> c

LowerText(t) == [i \in DOMAIN t |-> Lower(t[i])]

\* pat in text
Contains(text, pat) ==
    \E i \in 0..(Len(text) - Len(pat)) :
        \A j \in 1..Len(pat) : text[i + j] = pat[j]

\* the router domain substring tested at brouter.py:359
RouterDomain == <<"b", "r", "o", "u", "t", "e", "r">>

\* urlparse raises ValueError("Invalid IPv6 URL") on an unbalanced bracket
urlparse_raises(url) ==
    ("[" \in Range(url.netloc)) # ("]" \in Range(url.netloc))

\* validate_url without the test of the router domain
validate_url_any_domain(url) ==
    IF urlparse_raises(url) THEN "URL validation failed"
    ELSE IF url.scheme = "" \/ url.netloc = <<>>
         THEN "Invalid URL format - missing scheme or domain"
    ELSE ""

\* lines 354-362, the first stage of update_stop_positions_from_url: the
\* error message, "" when the URL passes
validate_url(url) ==
    IF urlparse_raises(url) THEN "URL validation failed"
    ELSE IF url.scheme = "" \/ url.netloc = <<>>
         THEN "Invalid URL format - missing scheme or domain"
    ELSE IF ~Contains(LowerText(url.netloc), RouterDomain)
         THEN "URL does not appear to be a BRouter URL"
    ELSE ""

MaxOf(S) == CHOOSE x \in S : \A y \in S : y <= x
MinOf(S) == CHOOSE x \in S : \A y \in S : x <= y

\* the lookup with a fragment that lacks the parameter passed over for the
\* query string
query_params_get_fallback(url, name) ==
    LET in_fragment == {i \in DOMAIN url.fragment :
                           url.fragment[i].eq /\ url.fragment[i].key = name}
        in_query == {i \in DOMAIN url.query :
                        /\ url.query[i].eq
                        /\ url.query[i].key = name
                        /\ url.query[i].value # EmptyText}
    IN IF HasText(url.fragment) /\ in_fragment # {}
       THEN url.fragment[MaxOf(in_fragment)].value
       ELSE IF in_query = {} THEN None ELSE url.query[MinOf(in_query)].value

\* The lookup every extractor starts with: among the fragment's key=value
\* parts when the fragment is not empty (a later part replaces an earlier
\* one of the same key), else parse_qs of the query (parts without '=' and
\* blank values are dropped, the first value of the key is taken).
query_params_get(url, name) ==
    IF HasText(url.fragment)
    THEN LET idx == {i \in DOMAIN url.fragment :
                        url.fragment[i].eq /\ url.fragment[i].key = name}
         IN IF idx = {} THEN None ELSE url.fragment[MaxOf(idx)].value
    ELSE LET idx == {i \in DOMAIN url.query :
                        /\ url.query[i].eq
                        /\ url.query[i].key = name
                        /\ url.query[i].value # EmptyText}
         IN IF idx = {} THEN None ELSE url.query[MinOf(idx)].value

\* `if not value`
Falsy(value) == value = None \/ value = EmptyText

coord_ok(pair) == Len(pair) = 2 /\ IsFloat(pair[1]) /\ IsFloat(pair[2])
coord_of(pair) == <<ToFloat(pair[1]), ToFloat(pair[2])>>

extract_coords_from_brouter_url(url) ==
    IF urlparse_raises(url) THEN <<>>
    ELSE LET lonlats_value == query_params_get(url, "lonlats")
         IN IF Falsy(lonlats_value) THEN <<>>
            ELSE LET kept == SelectSeq(lonlats_value, coord_ok)
                 IN [i \in DOMAIN kept |-> coord_of(kept[i])]

nogo_ok(t) ==
    Len(t) = 3 /\ IsFloat(t[1]) /\ IsFloat(t[2]) /\ t[3].k = "num"
\* int(float('inf')) raises OverflowError, which only the outer handler catches
nogo_overflows(t) ==
    Len(t) = 3 /\ IsFloat(t[1]) /\ IsFloat(t[2]) /\ t[3].k = "inf"
nogo_of(t) == <<ToFloat(t[1]), ToFloat(t[2]), t[3].n>>

extract_nogos_from_brouter_url(url) ==
    IF urlparse_raises(url) THEN <<>>
    ELSE LET nogos_value == query_params_get(url, "nogos")
         IN IF Falsy(nogos_value) THEN <<>>
            ELSE IF \E i \in DOMAIN nogos_value : nogo_overflows(nogos_value[i])
                 THEN <<>>
            ELSE LET kept == SelectSeq(nogos_value, nogo_ok)
                 IN [i \in DOMAIN kept |-> nogo_of(kept[i])]

poi_ok(t) == Len(t) >= 3 /\ IsFloat(t[1]) /\ IsFloat(t[2])
\* the label is the list of the fields after the second comma
poi_of(t) == [lon |-> ToFloat(t[1]), lat |-> ToFloat(t[2]),
              label |-> SubSeq(t, 3, Len(t))]

extract_pois_from_brouter_url(url) ==
    IF urlparse_raises(url) THEN <<>>
    ELSE LET pois_value == query_params_get(url, "pois")
         IN IF Falsy(pois_value) THEN <<>>
            ELSE LET kept == SelectSeq(pois_value, poi_ok)
                 IN [i \in DOMAIN kept |-> poi_of(kept[i])]

\* value.split(','): the fields of the items, the last field of an item and
\* the first of the next one being a single field that holds a ';'
straight_fields(value) ==
    Flatten([j \in DOMAIN value |->
        [i \in DOMAIN value[j] |->
            IF (i = Len(value[j]) /\ j < Len(value)) \/ (i = 1 /\ j > 1)
            THEN Str(";") ELSE value[j][i]]])

straight_ok(t) == t.k = "num"
straight_of(t) == t.n

extract_straight_from_brouter_url(url) ==
    IF urlparse_raises(url) THEN <<>>
    ELSE LET straight_value == query_params_get(url, "straight")
         IN IF Falsy(straight_value) THEN <<>>
            ELSE LET kept == SelectSeq(straight_fields(straight_value), straight_ok)
                 IN [i \in DOMAIN kept |-> straight_of(kept[i])]

-----------------------------------------------------------------------------
(* Distances, trips and tables *)

\* geodesic(p, q).meters of geopy, p and q being (lat, lon): on the metre
\* grid, the length of the axis-parallel path between the two points
geodesic(p, q) == Abs(p[1] - q[1]) + Abs(p[2] - q[2])

\* a stop moved when it is further than this from its stored position
MoveThreshold == 1
\* a GUIDE poi claims a waypoint no further than this
GuideThreshold == 100

\* trip.get("shape_id") of a trip that has none
NoShape == ""

RECURSIVE SortedByField(_, _)
\* sorted(s, key=lambda x: x[k]): stable, ascending
SortedByField(s, k) ==
    IF s = <<>> THEN <<>>
    ELSE LET x == s[Len(s)]
             rest == SortedByField(SubSeq(s, 1, Len(s) - 1), k)
             \* x goes after every element whose key is not greater
             n == Cardinality({i \in DOMAIN rest : rest[i][k] <= x[k]})
         IN SubSeq(rest, 1, n) \o <<x>> \o SubSeq(rest, n + 1, Len(rest))

\* the columns update_stop_positions_from_url requires of stops.csv
required_columns == <<"stop_id", "stop_lat", "stop_lon", "stop_name">>

\* The result dictionary.  keys is the set of its keys; a field whose key is
\* absent holds a default.  raised: the call ended with an exception instead
\* of a return value.  stages lists the stages the call evaluated, in order.
NoInfo == [keys |-> {}, count |-> 0, shape_id |-> "", items |-> <<>>, error |-> ""]

NoResult ==
    [raised |-> FALSE, keys |-> {}, error |-> "",
     url_coords |-> 0, stop_coords |-> 0, trip_stops |-> 0, detected_guides |-> 0,
     available_trips |-> <<>>, missing_columns |-> <<>>,
     trip_id |-> "", total_stops |-> 0, stops_moved |-> 0,
     total_distance_m |-> 0, avg_distance_m |-> [num |-> 0, den |-> 1],
     updates |-> <<>>, csv_updated |-> FALSE, straight_indices |-> <<>>,
     nogos_info |-> NoInfo, guides_info |-> NoInfo, stages |-> <<>>]

\* return {"error": message}
ErrorResult(message, stages) ==
    [NoResult EXCEPT !.keys = {"error"}, !.error = message, !.stages = stages]

\* lines 399-421: every GUIDE poi, in order, claims the nearest waypoint that
\* is not claimed yet and not further than the threshold; of several
\* waypoints at the same distance the first one.  Indices are 0-based.
\* within_reach without a limit: the nearest coordinate is always claimed
within_reach_any(distance_m) == TRUE

\* line 414: distance_m <= 100
within_reach(distance_m) == distance_m <= GuideThreshold

\* unclaimed with a claimed waypoint left open to the next GUIDE poi
unclaimed_any(i, guide_indices) == TRUE

\* lines 410-411: a waypoint already assigned to a guide is passed over
unclaimed(i, guide_indices) == i \notin guide_indices

RECURSIVE detect_guides(_, _, _, _)
detect_guides(guide_pois, new_coords, guide_indices, detected_guides) ==
    IF guide_pois = <<>>
    THEN [guide_indices |-> guide_indices, detected_guides |-> detected_guides]
    ELSE LET guide_lon == Head(guide_pois)[1]
             guide_lat == Head(guide_pois)[2]
             distance_m(i) ==
                 geodesic(<<new_coords[i + 1][2], new_coords[i + 1][1]>>,
                          <<guide_lat, guide_lon>>)
             free == {i \in 0..(Len(new_coords) - 1) :
                         unclaimed(i, guide_indices) /\ within_reach(distance_m(i))}
             nearest == {i \in free : \A j \in free : distance_m(i) <= distance_m(j)}
         IN IF free = {}
            THEN detect_guides(Tail(guide_pois), new_coords, guide_indices,
                               detected_guides)
            ELSE LET closest_index == MinOf(nearest)
                 IN detect_guides(Tail(guide_pois), new_coords,
                        guide_indices \cup {closest_index},
                        Append(detected_guides,
                               <<new_coords[closest_index + 1][1],
                                 new_coords[closest_index + 1][2],
                                 closest_index>>))

\* is_moved with a move of exactly the threshold counted
is_moved_at_least(distance_m) == distance_m >= MoveThreshold

\* moved = distance_m > 1.0
is_moved(distance_m) == distance_m > MoveThreshold

\* set_stop_position that leaves the table as it was read
set_stop_position_not_applied(rows, stop_id, new_lon, new_lat) == rows

\* df.loc[df['stop_id'] == stop_id, ...] = new value
set_stop_position(rows, stop_id, new_lon, new_lat) ==
    [r \in DOMAIN rows |->
        IF rows[r].stop_id = stop_id
        THEN [rows[r] EXCEPT !.stop_lon = new_lon, !.stop_lat = new_lat]
        ELSE rows[r]]

\* update_step that passes over a visit whose stop is not in the table
\* without recording it
update_step_drop_missing(acc, new_coord, stop_id) ==
    IF \A r \in DOMAIN acc.rows : acc.rows[r].stop_id # stop_id
    THEN acc
    ELSE LET old_lon == SelectSeq(acc.rows, LAMBDA r : r.stop_id = stop_id)[1].stop_lon
             old_lat == SelectSeq(acc.rows, LAMBDA r : r.stop_id = stop_id)[1].stop_lat
             distance_m == geodesic(<<old_lat, old_lon>>, <<new_coord[2], new_coord[1]>>)
             moved == is_moved(distance_m)
         IN [rows |-> IF moved
                      THEN set_stop_position(acc.rows, stop_id, new_coord[1], new_coord[2])
                      ELSE acc.rows,
             updates |-> Append(acc.updates,
                 [keys |-> {"stop_id", "stop_name", "old_coords",
                            "new_coords", "distance_m", "moved"},
                  stop_id |-> stop_id, error |-> "",
                  stop_name |-> SelectSeq(acc.rows,
                                    LAMBDA r : r.stop_id = stop_id)[1].stop_name,
                  old_coords |-> <<old_lon, old_lat>>,
                  new_coords |-> new_coord,
                  distance_m |-> distance_m, moved |-> moved]),
             total_moved |-> acc.total_moved + (IF moved THEN 1 ELSE 0),
             total_distance |->
                 acc.total_distance + (IF moved THEN distance_m ELSE 0)]

\* lines 444-480: the body of the loop over the stop-only coordinates, for
\* the coordinate new_coord paired with the visit of stop_id; acc is
\* [rows, updates, total_moved, total_distance]
update_step(acc, new_coord, stop_id) ==
    LET new_lon == new_coord[1]
        new_lat == new_coord[2]
        stop_row == SelectSeq(acc.rows, LAMBDA r : r.stop_id = stop_id)
    IN IF stop_row = <<>>
       THEN [acc EXCEPT !.updates = Append(@,
                [keys |-> {"stop_id", "error"}, stop_id |-> stop_id,
                 error |-> "Stop not found in stops.csv",
                 stop_name |-> "", old_coords |-> <<0, 0>>,
                 new_coords |-> <<0, 0>>, distance_m |-> 0, moved |-> FALSE])]
       ELSE LET old_lon == stop_row[1].stop_lon
                old_lat == stop_row[1].stop_lat
                distance_m == geodesic(<<old_lat, old_lon>>, <<new_lat, new_lon>>)
                moved == is_moved(distance_m)
            IN [rows |-> IF moved
                         THEN set_stop_position(acc.rows, stop_id, new_lon, new_lat)
                         ELSE acc.rows,
                updates |-> Append(acc.updates,
                    [keys |-> {"stop_id", "stop_name", "old_coords",
                               "new_coords", "distance_m", "moved"},
                     stop_id |-> stop_id, error |-> "",
                     stop_name |-> stop_row[1].stop_name,
                     old_coords |-> <<old_lon, old_lat>>,
                     new_coords |-> <<new_lon, new_lat>>,
                     distance_m |-> distance_m, moved |-> moved]),
                total_moved |-> acc.total_moved + (IF moved THEN 1 ELSE 0),
                total_distance |->
                    acc.total_distance + (IF moved THEN distance_m ELSE 0)]

\* lines 443-480: the loop, from position i (1-based here) on
RECURSIVE compare_and_update(_, _, _, _)
compare_and_update(i, stop_coords, sorted_stop_times, acc) ==
    IF i > Len(stop_coords) THEN acc
    ELSE compare_and_update(i + 1, stop_coords, sorted_stop_times,
            update_step(acc, stop_coords[i], sorted_stop_times[i][2]))

\* count_mismatch with the comparison only catching surplus coordinates
count_mismatch_surplus_only(stop_coords, sorted_stop_times) ==
    Len(stop_coords) > Len(sorted_stop_times)

\* line 429: len(stop_coords) != len(sorted_stop_times)
count_mismatch(stop_coords, sorted_stop_times) ==
    Len(stop_coords) # Len(sorted_stop_times)

\* avg_distance without the guard: the division is by zero when no stop moved
avg_distance_unguarded(total_distance, total_moved) ==
    [num |-> total_distance, den |-> total_moved]

\* total_distance / total_moved if total_moved > 0 else 0, as a fraction
avg_distance(total_distance, total_moved) ==
    IF total_moved > 0 THEN [num |-> total_distance, den |-> total_moved]
    ELSE [num |-> 0, den |-> 1]

\* the order cell of a guide row that has none
NoOrder == -1

\* lines 488-531: the nogo table.  file is nogos.csv as the call finds it,
\* writable says whether writing it succeeds.  raised: the file was missing
\* and creating it failed, outside the try block (line 498).
save_nogos(file, shape_id, nogos_from_url, writable) ==
    IF nogos_from_url = <<>> \/ shape_id = NoShape
    THEN [file |-> file, info |-> NoInfo, raised |-> FALSE]
    ELSE IF file.kind = "missing" /\ ~writable
    THEN [file |-> file, info |-> NoInfo, raised |-> TRUE]
    ELSE LET created == file.kind = "missing"
             found == IF created THEN [kind |-> "ok", rows |-> <<>>] ELSE file
             info0 == IF created
                      THEN [NoInfo EXCEPT !.keys = {"nogos_csv_created"}]
                      ELSE NoInfo
             new_nogos == [i \in DOMAIN nogos_from_url |->
                              [shape_id |-> shape_id,
                               stop_lat |-> nogos_from_url[i][2],
                               stop_lon |-> nogos_from_url[i][1],
                               radius |-> nogos_from_url[i][3]]]
         IN IF found.kind # "ok" \/ ~writable
            THEN [file |-> found,
                  info |-> [info0 EXCEPT !.keys = @ \cup {"nogos_error"},
                                         !.error = "Could not update nogos.csv"],
                  raised |-> FALSE]
            ELSE [file |-> [kind |-> "ok",
                            rows |-> SelectSeq(found.rows,
                                        LAMBDA r : r.shape_id # shape_id)
                                     \o new_nogos],
                  info |-> [info0 EXCEPT
                              !.keys = @ \cup {"nogos_updated", "nogos_count",
                                               "shape_id", "nogos"},
                              !.count = Len(new_nogos),
                              !.shape_id = shape_id,
                              !.items = nogos_from_url],
                  raised |-> FALSE]

\* guide_position left at the index in the URL's coordinate list
guide_position_in_url(detected_guides, original_position) == original_position

\* lines 551-563: a guide's position among the stops
guide_position(detected_guides, original_position) ==
    original_position
    - Cardinality({j \in DOMAIN detected_guides :
                      detected_guides[j][3] < original_position})

\* lines 533-578: the guide table, as save_nogos (creation at line 541)
save_guides(file, shape_id, detected_guides, writable) ==
    IF detected_guides = <<>> \/ shape_id = NoShape
    THEN [file |-> file, info |-> NoInfo, raised |-> FALSE]
    ELSE IF file.kind = "missing" /\ ~writable
    THEN [file |-> file, info |-> NoInfo, raised |-> TRUE]
    ELSE LET created == file.kind = "missing"
             found == IF created THEN [kind |-> "ok", rows |-> <<>>] ELSE file
             info0 == IF created
                      THEN [NoInfo EXCEPT !.keys = {"guides_csv_created"}]
                      ELSE NoInfo
             new_guides == [i \in DOMAIN detected_guides |->
                               [shape_id |-> shape_id,
                                stop_lat |-> detected_guides[i][2],
                                stop_lon |-> detected_guides[i][1],
                                position |-> guide_position(detected_guides,
                                                detected_guides[i][3]),
                                order |-> NoOrder]]
         IN IF found.kind # "ok" \/ ~writable
            THEN [file |-> found,
                  info |-> [info0 EXCEPT !.keys = @ \cup {"guides_error"},
                                         !.error = "Could not update guides.csv"],
                  raised |-> FALSE]
            ELSE [file |-> [kind |-> "ok",
                            rows |-> SelectSeq(found.rows,
                                        LAMBDA r : r.shape_id # shape_id)
                                     \o new_guides],
                  info |-> [info0 EXCEPT
                              !.keys = @ \cup {"guides_updated", "guides_count",
                                               "shape_id", "guides"},
                              !.count = Len(new_guides),
                              !.shape_id = shape_id,
                              !.items = [i \in DOMAIN new_guides |->
                                            <<new_guides[i].stop_lon,
                                              new_guides[i].stop_lat,
                                              new_guides[i].position>>]],
                  raised |-> FALSE]

\* the label the generator gives a guide's poi
GuideLabel == <<Str("GUIDE")>>

\* line 374: [(lon, lat) for lon, lat, label in pois if label == "GUIDE"]
guide_pois_of(pois) ==
    LET kept == SelectSeq(pois, LAMBDA p : p.label = GuideLabel)
    IN [i \in DOMAIN kept |-> <<kept[i].lon, kept[i].lat>>]

\* the stages of update_stop_positions_from_url, in the order of the code
StageOrder ==
    <<"validate", "lonlats", "straight", "pois", "trip", "load", "columns",
      "guides", "count", "update", "save", "nogos", "guides_table">>

StagesUpTo(name) ==
    SubSeq(StageOrder, 1, CHOOSE i \in DOMAIN StageOrder : StageOrder[i] = name)

\* structural_error with the stop table loaded before the trip is looked up
structural_error_table_first(brouter_url, trip_id, trips, df) ==
    LET invalid == validate_url(brouter_url)
        missing_columns == SelectSeq(required_columns, LAMBDA c : c \notin df.columns)
    IN
    IF invalid # "" THEN ErrorResult(invalid, StagesUpTo("validate"))
    ELSE IF extract_coords_from_brouter_url(brouter_url) = <<>>
    THEN ErrorResult("Could not extract coordinates from BRouter URL",
                     StagesUpTo("lonlats"))
    ELSE IF df.kind = "missing"
    THEN ErrorResult("stops.csv file not found", StagesUpTo("load"))
    ELSE IF df.kind # "ok"
    THEN ErrorResult("Could not read stops.csv", StagesUpTo("load"))
    ELSE IF missing_columns # <<>>
    THEN [ErrorResult("stops.csv missing required columns", StagesUpTo("columns"))
             EXCEPT !.missing_columns = missing_columns]
    ELSE IF \A t \in DOMAIN trips : trips[t].trip_id # trip_id
    THEN [ErrorResult("Trip not found", StagesUpTo("trip"))
             EXCEPT !.available_trips = [t \in DOMAIN trips |-> trips[t].trip_id]]
    ELSE NoResult

\* lines 354-394: the stages that end the call before the stop sequence is
\* looked at, in the order of the code; NoResult when none of them fails
structural_error(brouter_url, trip_id, trips, df) ==
    LET invalid == validate_url(brouter_url)
        missing_columns == SelectSeq(required_columns, LAMBDA c : c \notin df.columns)
    IN
    IF invalid # "" THEN ErrorResult(invalid, StagesUpTo("validate"))
    ELSE IF extract_coords_from_brouter_url(brouter_url) = <<>>
    THEN ErrorResult("Could not extract coordinates from BRouter URL",
                     StagesUpTo("lonlats"))
    ELSE IF \A t \in DOMAIN trips : trips[t].trip_id # trip_id
    THEN [ErrorResult("Trip not found", StagesUpTo("trip"))
             EXCEPT !.available_trips = [t \in DOMAIN trips |-> trips[t].trip_id]]
    ELSE IF df.kind = "missing"
    THEN ErrorResult("stops.csv file not found", StagesUpTo("load"))
    ELSE IF df.kind # "ok"
    THEN ErrorResult("Could not read stops.csv", StagesUpTo("load"))
    ELSE IF missing_columns # <<>>
    THEN [ErrorResult("stops.csv missing required columns", StagesUpTo("columns"))
             EXCEPT !.missing_columns = missing_columns]
    ELSE NoResult

\* to_csv that writes the rows the loop changed and no others
to_csv_changed_rows(df, rows) ==
    [df EXCEPT !.rows = SelectSeq(rows, LAMBDA r : r \notin Range(df.rows))]

\* line 484: df.to_csv(stops_csv_path, index=False), the whole table
to_csv(df, rows) == [df EXCEPT !.rows = rows]

\* update_stop_positions_from_url(brouter_url, trip_id, trips, stops_csv_path,
\* nogos_csv_path, guides_csv_path).  files holds the three files as the call
\* finds them; nogos_csv_path and guides_csv_path say whether the path is
\* given; unwritable is the set of files ("stops", "nogos", "guides") whose
\* writing fails.  The value is the returned result with the files as the
\* call leaves them.
update_stop_positions_from_url(brouter_url, trip_id, trips, files, nogos_csv_path, guides_csv_path, unwritable) ==
    LET Return(res) == [result |-> res, stops |-> files.stops,
                        nogos |-> files.nogos, guides |-> files.guides]
        early == structural_error(brouter_url, trip_id, trips, files.stops)
        new_coords == extract_coords_from_brouter_url(brouter_url)
        straight_indices == extract_straight_from_brouter_url(brouter_url)
        pois == extract_pois_from_brouter_url(brouter_url)
        guide_pois == guide_pois_of(pois)
        found == {t \in DOMAIN trips : trips[t].trip_id = trip_id}
        df == files.stops
    IN
    IF early # NoResult THEN Return(early)
    ELSE
    LET trip == trips[MinOf(found)]
        sorted_stop_times == SortedByField(trip.stop_times, 1)
        det == detect_guides(guide_pois, new_coords, {}, <<>>)
        detected_guides == det.detected_guides
        \* guide_indices are 0-based
        stop_coords == SelectIdx(new_coords,
                                 {g + 1 : g \in det.guide_indices}, 1)
    IN
    IF count_mismatch(stop_coords, sorted_stop_times)
    THEN Return([ErrorResult("Coordinate count mismatch after removing guide points",
                             StagesUpTo("count"))
                    EXCEPT !.keys = {"error", "url_coords", "stop_coords",
                                     "trip_stops", "detected_guides"},
                           !.url_coords = Len(new_coords),
                           !.stop_coords = Len(stop_coords),
                           !.trip_stops = Len(sorted_stop_times),
                           !.detected_guides = Len(detected_guides)])
    ELSE
    LET acc == compare_and_update(1, stop_coords, sorted_stop_times,
                   [rows |-> df.rows, updates |-> <<>>,
                    total_moved |-> 0, total_distance |-> 0])
    IN
    IF "stops" \in unwritable
    THEN Return(ErrorResult("Could not save stops.csv", StagesUpTo("save")))
    ELSE
    LET saved == to_csv(df, acc.rows)
        ng == IF nogos_csv_path
              THEN save_nogos(files.nogos, trip.shape_id,
                              extract_nogos_from_brouter_url(brouter_url),
                              "nogos" \notin unwritable)
              ELSE [file |-> files.nogos, info |-> NoInfo, raised |-> FALSE]
        gd == IF guides_csv_path
              THEN save_guides(files.guides, trip.shape_id, detected_guides,
                               "guides" \notin unwritable)
              ELSE [file |-> files.guides, info |-> NoInfo, raised |-> FALSE]
    IN
    IF ng.raised
    THEN [result |-> [NoResult EXCEPT !.raised = TRUE,
                                      !.stages = StagesUpTo("nogos")],
          stops |-> saved, nogos |-> ng.file, guides |-> files.guides]
    ELSE IF gd.raised
    THEN [result |-> [NoResult EXCEPT !.raised = TRUE,
                                      !.stages = StagesUpTo("guides_table")],
          stops |-> saved, nogos |-> ng.file, guides |-> gd.file]
    ELSE
    [result |->
        [NoResult EXCEPT
            !.keys = {"trip_id", "total_stops", "stops_moved", "total_distance_m",
                      "avg_distance_m", "updates", "csv_updated",
                      "straight_indices", "nogos_info", "guides_info"},
            !.trip_id = trip_id,
            !.total_stops = Len(acc.updates),
            !.stops_moved = acc.total_moved,
            !.total_distance_m = acc.total_distance,
            !.avg_distance_m = avg_distance(acc.total_distance, acc.total_moved),
            !.updates = acc.updates,
            !.csv_updated = TRUE,
            !.straight_indices = straight_indices,
            !.nogos_info = ng.info,
            !.guides_info = gd.info,
            !.stages = StageOrder],
     stops |-> saved, nogos |-> ng.file, guides |-> gd.file]

-----------------------------------------------------------------------------
(* Building URLs: lines 292-320 of generate_brouter_urls *)

\* lonlats_text with the latitude written first
lonlats_text_lat_first(coords) ==
    IF coords = <<>> THEN EmptyText
    ELSE [i \in DOMAIN coords |-> <<Num(coords[i][2]), Num(coords[i][1])>>]

\* ";".join(f"{lon},{lat}" for lon, lat in coords)
lonlats_text(coords) ==
    IF coords = <<>> THEN EmptyText
    ELSE [i \in DOMAIN coords |-> <<Num(coords[i][1]), Num(coords[i][2])>>]

\* f"&nogos={';'.join(nogos_list)}", or nothing when the list is empty
nogos_param(nogos_list) ==
    IF nogos_list = <<>> THEN <<>>
    ELSE <<Part("nogos", [i \in DOMAIN nogos_list |->
                <<Num(nogos_list[i][1]), Num(nogos_list[i][2]),
                  Num(nogos_list[i][3])>>])>>

\* f"&pois={';'.join(poi_list)}", a poi being [lon, lat, label]
pois_param(poi_list) ==
    IF poi_list = <<>> THEN <<>>
    ELSE <<Part("pois", [i \in DOMAIN poi_list |->
                <<Num(poi_list[i].lon), Num(poi_list[i].lat)>>
                \o poi_list[i].label])>>

\* f"&straight={','.join(map(str, straight_indices))}"
straight_param(straight_indices) ==
    IF straight_indices = <<>> THEN <<>>
    ELSE <<Part("straight",
                << [i \in DOMAIN straight_indices |-> Num(straight_indices[i])] >>)>>

BrouterDe == <<"b", "r", "o", "u", "t", "e", "r", ".", "d", "e">>

\* url = f"{base}{lonlats}{suffix}{nogos_param}{pois_param}{straight_param}"
build_url(coords, nogos_list, poi_list, straight_indices) ==
    [scheme |-> "https", netloc |-> BrouterDe, query |-> <<>>,
     fragment |->
        <<Part("map", << <<Str("11/42.4655/-73.6002/standard")>> >>),
          Part("lonlats", lonlats_text(coords)),
          Part("profile", << <<Str("car-fast")>> >>)>>
        \o nogos_param(nogos_list) \o pois_param(poi_list)
        \o straight_param(straight_indices)]

-----------------------------------------------------------------------------
(* generate_brouter_urls: one trip of its loop.  A dict is a function from  *)
(* its keys; it is empty (and falsy) when its domain is.                    *)

\* stop_lookup = {s["stop_id"]: (s["stop_lon"], s["stop_lat"]) for s in stops}
\* read at stop_id: the last row of the id
stop_lookup(stops, stop_id) ==
    LET r == stops[MaxOf({k \in DOMAIN stops : stops[k].stop_id = stop_id})]
    IN <<r.stop_lon, r.stop_lat>>

\* trip_coords that gives up the whole trip at an unknown stop
trip_coords_abort(sorted_stop_times, stops) ==
    IF \E i \in DOMAIN sorted_stop_times :
          \A k \in DOMAIN stops : stops[k].stop_id # sorted_stop_times[i][2]
    THEN <<>>
    ELSE [i \in DOMAIN sorted_stop_times |->
             stop_lookup(stops, sorted_stop_times[i][2])]

\* lines 268-273: the coordinates of the visits whose stop is known
trip_coords(sorted_stop_times, stops) ==
    LET known == SelectSeq(sorted_stop_times,
                    LAMBDA st : \E k \in DOMAIN stops : stops[k].stop_id = st[2])
    IN [i \in DOMAIN known |-> stop_lookup(stops, known[i][2])]

Reverse(s) == [i \in DOMAIN s |-> s[Len(s) + 1 - i]]

\* "shape_id and shape_id in d" for a dict d that is not empty
has_shape(d, shape_id) == shape_id # NoShape /\ shape_id \in DOMAIN d

\* line 288: 0 <= position <= len(coords)
in_range(position, coords) == 0 <= position /\ position <= Len(coords)

RECURSIVE insert_guides(_, _, _)
\* lines 287-290: for lon, lat, position in reversed(sorted_guides); a guide
\* that is not a triple cannot be unpacked (ValueError)
insert_guides(todo, coords, guide_pois) ==
    IF todo = <<>>
    THEN [coords |-> coords, guide_pois |-> guide_pois, raised |-> FALSE]
    ELSE LET g == Head(todo)
         IN IF Len(g) # 3
            THEN [coords |-> coords, guide_pois |-> guide_pois, raised |-> TRUE]
            ELSE IF in_range(g[3], coords)
            THEN insert_guides(Tail(todo),
                     SubSeq(coords, 1, g[3]) \o << <<g[1], g[2]>> >>
                     \o SubSeq(coords, g[3] + 1, Len(coords)),
                     Append(guide_pois,
                            [lon |-> g[1], lat |-> g[2], label |-> GuideLabel]))
            ELSE insert_guides(Tail(todo), coords, guide_pois)

\* the key as kept by a set of URLs alone
seen_key_url_only(shape_id, url) == <<NoShape, url>>

\* key = (trip.get("shape_id"), url)
seen_key(shape_id, url) == <<shape_id, url>>

\* lines 260-320: what one trip comes to: nothing ("skip"), an exception
\* ("raise") or a URL with the label and the key it is emitted under
trip_url(trip, stops, nogos, guides, straights) ==
    LET skip == [kind |-> "skip", label |-> "", key |-> <<>>, url |-> <<>>]
        sorted_stop_times == SortedByField(trip.stop_times, 1)
        coords == trip_coords(sorted_stop_times, stops)
        shape_id == trip.shape_id
        ins == IF has_shape(guides, shape_id)
               THEN insert_guides(Reverse(SortedByField(guides[shape_id], 3)),
                                  coords, <<>>)
               ELSE [coords |-> coords, guide_pois |-> <<>>, raised |-> FALSE]
        nogos_list == IF has_shape(nogos, shape_id) THEN nogos[shape_id] ELSE <<>>
        straight_indices ==
            IF has_shape(straights, shape_id) THEN straights[shape_id] ELSE <<>>
        url == build_url(ins.coords, nogos_list, ins.guide_pois, straight_indices)
    IN IF trip.stop_times = <<>> \/ coords = <<>> THEN skip
       ELSE IF ins.raised THEN [skip EXCEPT !.kind = "raise"]
       ELSE [kind |-> "url",
             label |-> IF shape_id # NoShape THEN shape_id ELSE trip.trip_id,
             key |-> seen_key(shape_id, url),
             url |-> url]

-----------------------------------------------------------------------------
(* The inputs of the model *)

\* longest coordinate list of an edited URL
MaxCoords == 3

\* S1 is stored at P0 and S2 at P2; P1 is exactly 1 m from P0
P0 == <<0, 0>>
P1 == <<1, 0>>
P2 == <<0, 150>>
Points == {P0, P1, P2}

\* a poi exactly 100 m from P0 and 50 m from P2, one on P2, one not a guide
Poi(c, label) == [lon |-> c[1], lat |-> c[2], label |-> label]
G1 == Poi(<<0, 100>>, GuideLabel)
G2 == Poi(P2, GuideLabel)
OtherPoi == Poi(P0, <<Str("STOP")>>)
PoiLists == {<<>>, <<G1>>, <<G2>>, <<OtherPoi>>, <<G1, G2>>, <<G2, G1>>}

NogoLists == {<<>>, << <<7, 8, 50>>, <<5, 6, 100>> >>}

TRIPS ==
    << [trip_id |-> "T1", shape_id |-> "A",
        stop_times |-> << <<10, "S2">>, <<5, "S1">> >>],
       [trip_id |-> "T2", shape_id |-> NoShape,
        stop_times |-> << <<5, "S1">>, <<10, "S1">> >>],
       [trip_id |-> "T3", shape_id |-> "B",
        stop_times |-> << <<5, "S9">>, <<10, "S2">> >>],
       [trip_id |-> "T4", shape_id |-> "A", stop_times |-> <<>>],
       [trip_id |-> "T8", shape_id |-> "A", stop_times |-> << <<5, "S1">> >>] >>

TripIds == {"T1", "T2", "T3", "T4", "T8", "T0"}

StopRow(id, name, c) ==
    [stop_id |-> id, stop_name |-> name, stop_lon |-> c[1], stop_lat |-> c[2]]
AllColumns == {"stop_id", "stop_name", "stop_lat", "stop_lon"}
StopsOk == [kind |-> "ok", columns |-> AllColumns,
            rows |-> <<StopRow("S1", "Depot", P0), StopRow("S2", "Market", P2)>>]
StopsMissing == [kind |-> "missing", columns |-> {}, rows |-> <<>>]
StopsUnreadable == [kind |-> "unreadable", columns |-> {}, rows |-> <<>>]
StopsNoName == [StopsOk EXCEPT !.columns = AllColumns \ {"stop_name"}]

NogoRow(shape, c, radius) ==
    [shape_id |-> shape, stop_lat |-> c[2], stop_lon |-> c[1], radius |-> radius]
GuideRow(shape, c, position, order) ==
    [shape_id |-> shape, stop_lat |-> c[2], stop_lon |-> c[1],
     position |-> position, order |-> order]
FileMissing == [kind |-> "missing", rows |-> <<>>]
FileUnreadable == [kind |-> "unreadable", rows |-> <<>>]
NogosOk == [kind |-> "ok",
            rows |-> <<NogoRow("A", <<9, 9>>, 30), NogoRow("B", <<4, 4>>, 20),
                       NogoRow("A", <<5, 6>>, 100)>>]
GuidesOk == [kind |-> "ok",
             rows |-> <<GuideRow("A", <<0, 70>>, 1, 0), GuideRow("B", <<3, 3>>, 0, 1)>>]

\* the files a command can find
Disks ==
    { [stops |-> StopsOk, nogos |-> FileMissing, guides |-> FileMissing],
      [stops |-> StopsOk, nogos |-> NogosOk, guides |-> GuidesOk],
      [stops |-> StopsOk, nogos |-> FileUnreadable, guides |-> FileUnreadable],
      [stops |-> StopsMissing, nogos |-> NogosOk, guides |-> GuidesOk],
      [stops |-> StopsUnreadable, nogos |-> FileMissing, guides |-> FileMissing],
      [stops |-> StopsNoName, nogos |-> NogosOk, guides |-> GuidesOk] }

\* URLs as the router's web page leaves them after editing
EditedUrls ==
    {build_url(c, n, p, <<>>) :
        c \in SeqsUpTo(Points, MaxCoords), n \in NogoLists, p \in PoiLists}

Text_ex_org == <<"e", "x", ".", "o", "r", "g">>
Netlocs ==
    { <<>>,
      BrouterDe,
      <<"B", "R", "o", "u", "t", "e", "r", ".", "D", "E">>,
      Text_ex_org,
      <<"b", "r", "o", "u", "t", "e", "r", "@">> \o Text_ex_org,
      <<"[">> \o BrouterDe }

\* other texts a caller can pass: every scheme and network location, and
\* lonlats missing, empty, malformed, repeated or in the query string
OddFragments ==
    { <<Part("profile", << <<Str("car-fast")>> >>)>>,
      <<Part("lonlats", EmptyText)>>,
      <<Part("lonlats", << <<Str("x"), Num(1)>>, <<Num(1)>> >>)>>,
      <<Part("lonlats", lonlats_text(<<P0>>)), Part("lonlats", lonlats_text(<<P0, P2>>))>>,
      <<BarePart("lonlats"), Part("lonlats", lonlats_text(<<P0, P1>>))>> }

OddUrls ==
    {[scheme |-> s, netloc |-> n, query |-> <<>>, fragment |-> f] :
        s \in {"", "https"}, n \in Netlocs,
        f \in { <<Part("lonlats", lonlats_text(<<P0, P2>>))>>,
                <<Part("lonlats", lonlats_text(<<P0>>))>>,
                <<Part("profile", << <<Str("car-fast")>> >>)>> }}
    \cup {[scheme |-> "https", netloc |-> BrouterDe, query |-> <<>>, fragment |-> f] :
             f \in OddFragments}
    \cup {[scheme |-> "https", netloc |-> BrouterDe, query |-> q, fragment |-> <<>>] :
             q \in OddFragments}

\* the URLs tried on a stop table: every one on a table that loads, and the
\* odd ones on a table that does not (the call ends before it looks further)
UrlsFor(stops) ==
    IF stops = StopsOk THEN EditedUrls \cup OddUrls ELSE OddUrls

Unwritables == {{}, {"stops"}, {"nogos"}, {"guides"}}

\* the annotation paths are passed together (main.py:296) or left out
PathChoices == {TRUE, FALSE}

\* no extractor called yet
NoDecoded == [done |-> {}, lonlats |-> <<>>, nogos |-> <<>>, pois |-> <<>>,
              straight |-> <<>>]

\* the command has not run
NoCmd == [raised |-> FALSE, printed |-> <<>>]

\* no loader called yet
NoLoaded == [done |-> {}, nogos |-> <<>>, guides |-> <<>>, straights |-> <<>>]

NoUrl == [scheme |-> "", netloc |-> <<>>, query |-> <<>>, fragment |-> <<>>]
NoCall == [brouter_url |-> NoUrl, trip_id |-> "", nogos_csv_path |-> FALSE,
           guides_csv_path |-> FALSE, unwritable |-> {}]
NoGenIn == [trips |-> <<>>, stops |-> <<>>, nogos |-> <<>>, guides |-> <<>>,
            straights |-> <<>>]

-----------------------------------------------------------------------------
(* The update-stop-positions command: one call of the reconciler on the    *)
(* files it finds.                                                         *)

Init ==
    /\ pc = "start"
    /\ \E d \in Disks :
          /\ stops_csv = d.stops
          /\ nogos_csv = d.nogos
          /\ guides_csv = d.guides
          /\ pre = d
    /\ call = NoCall
    /\ result = NoResult
    /\ gen_in = NoGenIn
    /\ gen_i = 0
    /\ seen = {}
    /\ emitted = <<>>
    /\ url_in = NoUrl
    /\ decoded = NoDecoded
    /\ cmd = NoCmd
    /\ straights_csv = FileMissing
    /\ loaded = NoLoaded

Reconcile ==
    /\ pc = "start"
    /\ \E url \in UrlsFor(stops_csv), tid \in TripIds, paths \in PathChoices,
          uw \in Unwritables :
          \E out \in {update_stop_positions_from_url(url, tid, TRIPS,
                        [stops |-> stops_csv, nogos |-> nogos_csv,
                         guides |-> guides_csv], paths, paths, uw)} :
             /\ call' = [brouter_url |-> url, trip_id |-> tid,
                         nogos_csv_path |-> paths, guides_csv_path |-> paths,
                         unwritable |-> uw]
             /\ pre' = [stops |-> stops_csv, nogos |-> nogos_csv,
                        guides |-> guides_csv]
             /\ result' = out.result
             /\ stops_csv' = out.stops
             /\ nogos_csv' = out.nogos
             /\ guides_csv' = out.guides
    /\ pc' = "done"
    /\ UNCHANGED <<gen_in, gen_i, seen, emitted>>
    /\ UNCHANGED <<codec_vars, cmd, load_vars>>

Next == Reconcile

Spec == Init /\ [][Next]_vars

-----------------------------------------------------------------------------
(* The generate-brouter-urls command: the generator is run over a trip     *)
(* list, one trip of its loop at a time.                                   *)

\* longest trip list
MaxTrips == 3

\* trips of shape A (twice, same visits), of shape C with the visits of A,
\* without a shape, with an unknown stop among its visits, without visits,
\* and with unknown stops only
GenTrips ==
    {TRIPS[1],
     [trip_id |-> "T5", shape_id |-> "A",
      stop_times |-> << <<5, "S1">>, <<10, "S2">> >>],
     [trip_id |-> "T6", shape_id |-> "C",
      stop_times |-> << <<5, "S1">>, <<10, "S2">> >>],
     TRIPS[2], TRIPS[3], TRIPS[4],
     [trip_id |-> "T7", shape_id |-> "D", stop_times |-> << <<5, "S9">> >>]}

NoDict == <<>>

\* the dicts of annotations: none; nogos and straights for A; guides for A
\* as triples, with positions inside, at the end, beyond the end and
\* negative; guides as load_guides_from_csv
\* returns them, (lon, lat, position, order)
GenAnnotations ==
    {[nogos |-> NoDict, guides |-> NoDict, straights |-> NoDict],
     [nogos |-> [k \in {"A"} |-> << <<5, 6, 100>> >>], guides |-> NoDict,
      straights |-> [k \in {"A"} |-> <<0, 1>>]],
     [nogos |-> NoDict,
      guides |-> [k \in {"A"} |-> << <<0, 70, 1>>, <<3, 3, 7>>, <<0, 20, 0>>,
                                     <<9, 9, -1>>, <<0, 160, 2>> >>],
      straights |-> NoDict],
     [nogos |-> NoDict,
      guides |-> [k \in {"A"} |-> << <<0, 70, 1, 0>>, <<0, 80, 1, 1>>,
                                     <<0, 20, 0, 2>> >>],
      straights |-> NoDict]}

GenInit ==
    /\ pc = "gen"
    /\ \E trips \in SeqsUpTo(GenTrips, MaxTrips), a \in GenAnnotations :
          gen_in = [trips |-> trips, stops |-> StopsOk.rows, nogos |-> a.nogos,
                    guides |-> a.guides, straights |-> a.straights]
    /\ gen_i = 0
    /\ seen = {}
    /\ emitted = <<>>
    /\ stops_csv = StopsOk /\ nogos_csv = FileMissing /\ guides_csv = FileMissing
    /\ pre = [stops |-> StopsOk, nogos |-> FileMissing, guides |-> FileMissing]
    /\ call = NoCall
    /\ result = NoResult
    /\ url_in = NoUrl
    /\ decoded = NoDecoded
    /\ cmd = NoCmd
    /\ straights_csv = FileMissing
    /\ loaded = NoLoaded

\* lines 260-329: one turn of "for trip in trips"
GenTrip ==
    /\ pc = "gen"
    /\ gen_i < Len(gen_in.trips)
    /\ \E out \in {trip_url(gen_in.trips[gen_i + 1], gen_in.stops, gen_in.nogos,
                             gen_in.guides, gen_in.straights)} :
          IF out.kind = "raise"
          THEN pc' = "gen_raised" /\ UNCHANGED <<gen_i, seen, emitted>>
          ELSE /\ pc' = pc
               /\ gen_i' = gen_i + 1
               /\ IF out.kind = "skip" \/ out.key \in seen
                  THEN UNCHANGED <<seen, emitted>>
                  ELSE /\ seen' = seen \cup {out.key}
                       /\ emitted' = Append(emitted, <<out.label, out.url>>)
    /\ UNCHANGED <<gen_in, stops_csv, nogos_csv, guides_csv, call, pre, result>>
    /\ UNCHANGED <<codec_vars, cmd, load_vars>>

\* the trip list is exhausted: the generator returns
GenEnd ==
    /\ pc = "gen"
    /\ gen_i = Len(gen_in.trips)
    /\ pc' = "gen_done"
    /\ UNCHANGED <<gen_in, gen_i, seen, emitted, stops_csv, nogos_csv,
                   guides_csv, call, pre, result>>
    /\ UNCHANGED <<codec_vars, cmd, load_vars>>

GenNext == GenTrip \/ GenEnd

SpecGen == GenInit /\ [][GenNext]_vars

-----------------------------------------------------------------------------
(* The URL parameter codec: the four extractors are called, in any order,  *)
(* on a URL whose parameters hold well-formed and malformed items.         *)

\* most items of a parameter value
MaxItems == 2

CoordItems ==
    { <<Num(1), Num(2)>>, <<Num(3), Num(4)>>, <<Num(1)>>,
      <<Num(1), Num(2), Num(3)>>, <<Str("x"), Num(2)>> }

NogoItems ==
    { <<Num(5), Num(6), Num(100)>>, <<Num(7), Num(8), Inf>>,
      <<Num(5), Num(6)>>, <<Num(5), Num(6), Str("x")>> }

PoiItems ==
    { <<Num(0), Num(100), Str("GUIDE")>>, <<Num(1), Num(2), Str("a"), Str("b")>>,
      <<Num(1), Num(2)>>, <<Str("x"), Num(2), Str("GUIDE")>> }

\* "0,1", "0,x,2", "0;1" and ""
StraightValues ==
    { << <<Num(0), Num(1)>> >>, << <<Num(0), Str("x"), Num(2)>> >>,
      << <<Num(0)>>, <<Num(1)>> >>, EmptyText }

\* the values of up to MaxItems items, the empty value included
ValuesOf(items) == (SeqsUpTo(items, MaxItems) \ {<<>>}) \cup {EmptyText}

\* "&key=value", or nothing for a parameter that is left out
OptPart(key, value) == IF value = None THEN <<>> ELSE <<Part(key, value)>>

Payload(l, n, p, s) ==
    <<Part("map", << <<Str("11/42.4655/-73.6002/standard")>> >>)>>
    \o OptPart("lonlats", l) \o OptPart("nogos", n) \o OptPart("pois", p)
    \o OptPart("straight", s)

GoodLonlats == << <<Num(1), Num(2)>>, <<Num(3), Num(4)>> >>
GoodNogos == << <<Num(5), Num(6), Num(100)>> >>
GoodPois == << <<Num(0), Num(100), Str("GUIDE")>> >>
GoodStraight == << <<Num(0), Num(1)>> >>

\* one parameter takes every value, the others are well-formed or left out
Payloads ==
    {Payload(l, n, p, s) : l \in ValuesOf(CoordItems), n \in {None, GoodNogos},
                           p \in {None, GoodPois}, s \in {None, GoodStraight}}
    \cup {Payload(l, n, p, s) : l \in {None, GoodLonlats}, n \in ValuesOf(NogoItems),
                                p \in {None, GoodPois}, s \in {None, GoodStraight}}
    \cup {Payload(l, n, p, s) : l \in {None, GoodLonlats}, n \in {None, GoodNogos},
                                p \in ValuesOf(PoiItems), s \in {None, GoodStraight}}
    \cup {Payload(l, n, p, s) : l \in {None, GoodLonlats}, n \in {None, GoodNogos},
                                p \in {None, GoodPois}, s \in StraightValues}

\* a query string with other values of the four parameters
QueryPayload ==
    <<Part("lonlats", << <<Num(7), Num(8)>> >>),
      Part("nogos", << <<Num(1), Num(1), Num(10)>> >>),
      Part("pois", << <<Num(3), Num(4), Str("GUIDE")>> >>),
      Part("straight", << <<Num(2)>> >>)>>

\* URLs with the payload in the fragment; and URLs with a fragment that
\* holds all, one or none of the parameters, or no fragment, before a query
\* string that holds all, one or none of them
CodecUrls ==
    {[scheme |-> "https", netloc |-> BrouterDe, query |-> <<>>, fragment |-> f] :
        f \in Payloads}
    \cup {[scheme |-> "https", netloc |-> BrouterDe, query |-> q, fragment |-> f] :
             f \in {<<>>, Payload(GoodLonlats, GoodNogos, GoodPois, GoodStraight),
                    Payload(GoodLonlats, None, None, None),
                    Payload(None, None, None, None)},
             q \in {<<>>, QueryPayload, SubSeq(QueryPayload, 1, 1)}}

CodecInit ==
    /\ pc = "codec"
    /\ url_in \in CodecUrls
    /\ decoded = NoDecoded
    /\ gen_in = NoGenIn /\ gen_i = 0 /\ seen = {} /\ emitted = <<>>
    /\ stops_csv = StopsOk /\ nogos_csv = FileMissing /\ guides_csv = FileMissing
    /\ pre = [stops |-> StopsOk, nogos |-> FileMissing, guides |-> FileMissing]
    /\ call = NoCall
    /\ result = NoResult
    /\ cmd = NoCmd
    /\ straights_csv = FileMissing
    /\ loaded = NoLoaded

CodecUnchanged ==
    UNCHANGED <<pc, url_in, gen_in, gen_i, seen, emitted, stops_csv, nogos_csv,
                guides_csv, call, pre, result, cmd, load_vars>>

ExtractCoords ==
    /\ pc = "codec" /\ "lonlats" \notin decoded.done
    /\ decoded' = [decoded EXCEPT !.done = @ \cup {"lonlats"},
                                  !.lonlats = extract_coords_from_brouter_url(url_in)]
    /\ CodecUnchanged

ExtractNogos ==
    /\ pc = "codec" /\ "nogos" \notin decoded.done
    /\ decoded' = [decoded EXCEPT !.done = @ \cup {"nogos"},
                                  !.nogos = extract_nogos_from_brouter_url(url_in)]
    /\ CodecUnchanged

ExtractPois ==
    /\ pc = "codec" /\ "pois" \notin decoded.done
    /\ decoded' = [decoded EXCEPT !.done = @ \cup {"pois"},
                                  !.pois = extract_pois_from_brouter_url(url_in)]
    /\ CodecUnchanged

ExtractStraight ==
    /\ pc = "codec" /\ "straight" \notin decoded.done
    /\ decoded' = [decoded EXCEPT !.done = @ \cup {"straight"},
                                  !.straight = extract_straight_from_brouter_url(url_in)]
    /\ CodecUnchanged

CodecNext == ExtractCoords \/ ExtractNogos \/ ExtractPois \/ ExtractStraight

SpecCodec == CodecInit /\ [][CodecNext]_vars

-----------------------------------------------------------------------------
(* The update-stop-positions command of main.py *)

\* the parameters of update_stop_positions_from_url (brouter_url, trip_id,
\* trips, stops_csv_path, nogos_csv_path, guides_csv_path, nogos, guides)
ReconcilerParameters == 8

\* main.py:296: the positional arguments of the call
call_arguments(brouter_url, trip_id) ==
    <<brouter_url, trip_id, "TRIPS", "stops_csv_path", "nogos_csv_path",
      "guides_csv_path", "straights_csv_path", "nogos_dict", "guides_dict">>

\* main.py:282-385: the call raises TypeError when it passes more arguments
\* than the reconciler has parameters; else the error line or the report
\* is printed
update_stop_positions(brouter_url, trip_id, files, unwritable) ==
    IF Len(call_arguments(brouter_url, trip_id)) > ReconcilerParameters
    THEN [cmd |-> [raised |-> TRUE, printed |-> <<>>],
          result |-> NoResult,
          stops |-> files.stops, nogos |-> files.nogos, guides |-> files.guides]
    ELSE LET out == update_stop_positions_from_url(brouter_url, trip_id, TRIPS,
                        files, TRUE, TRUE, unwritable)
         IN [cmd |-> [raised |-> out.result.raised,
                      printed |-> IF out.result.raised THEN <<>>
                                  ELSE IF "error" \in out.result.keys
                                  THEN <<"error">>
                                  ELSE <<"report">>],
             result |-> out.result,
             stops |-> out.stops, nogos |-> out.nogos, guides |-> out.guides]

CmdInit ==
    /\ pc = "command"
    /\ \E d \in Disks :
          /\ stops_csv = d.stops
          /\ nogos_csv = d.nogos
          /\ guides_csv = d.guides
          /\ pre = d
    /\ call = NoCall
    /\ result = NoResult
    /\ gen_in = NoGenIn /\ gen_i = 0 /\ seen = {} /\ emitted = <<>>
    /\ url_in = NoUrl
    /\ decoded = NoDecoded
    /\ cmd = NoCmd
    /\ straights_csv = FileMissing
    /\ loaded = NoLoaded

UpdateStopPositions ==
    /\ pc = "command"
    /\ \E url \in UrlsFor(stops_csv), tid \in TripIds :
          \E out \in {update_stop_positions(url, tid,
                          [stops |-> stops_csv, nogos |-> nogos_csv,
                           guides |-> guides_csv], {})} :
             /\ call' = [brouter_url |-> url, trip_id |-> tid,
                         nogos_csv_path |-> TRUE, guides_csv_path |-> TRUE,
                         unwritable |-> {}]
             /\ pre' = [stops |-> stops_csv, nogos |-> nogos_csv,
                        guides |-> guides_csv]
             /\ cmd' = out.cmd
             /\ result' = out.result
             /\ stops_csv' = out.stops
             /\ nogos_csv' = out.nogos
             /\ guides_csv' = out.guides
    /\ pc' = "command_done"
    /\ UNCHANGED <<gen_in, gen_i, seen, emitted, codec_vars, load_vars>>

CmdNext == UpdateStopPositions

SpecCmd == CmdInit /\ [][CmdNext]_vars

-----------------------------------------------------------------------------
(* The annotation loaders of main.py.  A cell of a table read by a loader  *)
(* is a token; the indices cell of straights.csv is [text, fields], text   *)
(* being FALSE for a cell pandas does not read as a string.                *)

\* int(cell) succeeds
IsInt(cell) == cell.k = "num"

\* a cell without a value (NaN)
NoCell == Str("")

\* the rows of each shape in row order: a list per shape_id, appended to
GroupByShape(rows) ==
    [shape_id \in {rows[i].shape_id : i \in DOMAIN rows} |->
        SelectSeq(rows, LAMBDA r : r.shape_id = shape_id)]

nogo_item(row) == <<row.stop_lon.n, row.stop_lat.n, row.radius.n>>

\* main.py:37-68: no file, no dict; an exception anywhere (the file cannot
\* be read, int(row["radius"]) fails) is caught at line 66 and gives {}
load_nogos_from_csv(file) ==
    IF file.kind # "ok" THEN NoDict
    ELSE IF \E i \in DOMAIN file.rows : ~IsInt(file.rows[i].radius) THEN NoDict
    ELSE LET by_shape == GroupByShape(file.rows)
         IN [shape_id \in DOMAIN by_shape |->
                [i \in DOMAIN by_shape[shape_id] |-> nogo_item(by_shape[shape_id][i])]]

\* int(row["order"]) if the cell has a value, else 0
order_of(row) == IF row.order = NoCell THEN 0 ELSE row.order.n

guide_item(row) ==
    <<row.stop_lon.n, row.stop_lat.n, row.position.n, order_of(row)>>

\* main.py:71-109: as load_nogos_from_csv, each list sorted by order
load_guides_from_csv(file) ==
    IF file.kind # "ok" THEN NoDict
    ELSE IF \E i \in DOMAIN file.rows :
               \/ ~IsInt(file.rows[i].position)
               \/ (file.rows[i].order # NoCell /\ ~IsInt(file.rows[i].order))
    THEN NoDict
    ELSE LET by_shape == GroupByShape(file.rows)
             guides_dict ==
                 [shape_id \in DOMAIN by_shape |->
                     [i \in DOMAIN by_shape[shape_id] |->
                         guide_item(by_shape[shape_id][i])]]
         IN [shape_id \in DOMAIN guides_dict |->
                SortedByField(guides_dict[shape_id], 4)]

\* main.py:112-147: indices_str.split(',') fails on a cell that is not a
\* string; a later row of a shape replaces an earlier one
load_straights_from_csv(file) ==
    IF file.kind # "ok" THEN NoDict
    ELSE IF \E i \in DOMAIN file.rows : ~file.rows[i].indices.text THEN NoDict
    ELSE IF file.rows = <<>> THEN NoDict
    ELSE [shape_id \in {file.rows[i].shape_id : i \in DOMAIN file.rows} |->
             LET last == file.rows[MaxOf({i \in DOMAIN file.rows :
                                            file.rows[i].shape_id = shape_id})]
                 kept == SelectSeq(last.indices.fields, IsInt)
             IN [i \in DOMAIN kept |-> kept[i].n]]

\* most rows of an annotation table
MaxRows == 2

NogoCells ==
    {[shape_id |-> "A", stop_lat |-> Num(9), stop_lon |-> Num(8), radius |-> Num(30)],
     [shape_id |-> "B", stop_lat |-> Num(4), stop_lon |-> Num(4), radius |-> Num(20)],
     [shape_id |-> "A", stop_lat |-> Num(6), stop_lon |-> Num(5), radius |-> Str("x")]}

GuideCells ==
    {[shape_id |-> "A", stop_lat |-> Num(70), stop_lon |-> Num(0),
      position |-> Num(1), order |-> Num(1)],
     [shape_id |-> "A", stop_lat |-> Num(20), stop_lon |-> Num(0),
      position |-> Num(0), order |-> NoCell],
     [shape_id |-> "B", stop_lat |-> Num(3), stop_lon |-> Num(3),
      position |-> Num(0), order |-> Num(1)],
     [shape_id |-> "A", stop_lat |-> Num(80), stop_lon |-> Num(0),
      position |-> Str("x"), order |-> Num(2)]}

\* "0,x,2" for A, "3" read as text for B, and a number cell for C
StraightCells ==
    {[shape_id |-> "A",
      indices |-> [text |-> TRUE, fields |-> <<Num(0), Str("x"), Num(2)>>]],
     [shape_id |-> "B", indices |-> [text |-> TRUE, fields |-> <<Num(3)>>]],
     [shape_id |-> "C", indices |-> [text |-> FALSE, fields |-> <<>>]]}

TablesOf(cells) ==
    {FileMissing, FileUnreadable}
    \cup {[kind |-> "ok", rows |-> rows] : rows \in SeqsUpTo(cells, MaxRows)}

\* one table takes every content, the other two are absent
LoadInit ==
    /\ pc = "load"
    /\ \/ nogos_csv \in TablesOf(NogoCells)
          /\ guides_csv = FileMissing /\ straights_csv = FileMissing
       \/ guides_csv \in TablesOf(GuideCells)
          /\ nogos_csv = FileMissing /\ straights_csv = FileMissing
       \/ straights_csv \in TablesOf(StraightCells)
          /\ nogos_csv = FileMissing /\ guides_csv = FileMissing
    /\ loaded = NoLoaded
    /\ stops_csv = StopsOk
    /\ pre = [stops |-> StopsOk, nogos |-> nogos_csv, guides |-> guides_csv]
    /\ call = NoCall
    /\ result = NoResult
    /\ gen_in = NoGenIn /\ gen_i = 0 /\ seen = {} /\ emitted = <<>>
    /\ url_in = NoUrl
    /\ decoded = NoDecoded
    /\ cmd = NoCmd

LoadUnchanged ==
    UNCHANGED <<pc, stops_csv, nogos_csv, guides_csv, straights_csv, call, pre,
                result, gen_in, gen_i, seen, emitted, codec_vars, cmd>>

LoadNogos ==
    /\ pc = "load" /\ "nogos" \notin loaded.done
    /\ loaded' = [loaded EXCEPT !.done = @ \cup {"nogos"},
                                !.nogos = load_nogos_from_csv(nogos_csv)]
    /\ LoadUnchanged

LoadGuides ==
    /\ pc = "load" /\ "guides" \notin loaded.done
    /\ loaded' = [loaded EXCEPT !.done = @ \cup {"guides"},
                                !.guides = load_guides_from_csv(guides_csv)]
    /\ LoadUnchanged

LoadStraights ==
    /\ pc = "load" /\ "straights" \notin loaded.done
    /\ loaded' = [loaded EXCEPT !.done = @ \cup {"straights"},
                                !.straights = load_straights_from_csv(straights_csv)]
    /\ LoadUnchanged

LoadNext == LoadNogos \/ LoadGuides \/ LoadStraights

SpecLoad == LoadInit /\ [][LoadNext]_vars

-----------------------------------------------------------------------------
(* The round trip: generate_brouter_urls emits the URL of a trip, and the  *)
(* URL is passed as it is to update_stop_positions_from_url with the same  *)
(* trip list and stop table.                                               *)

\* most visits of a trip and most guides of a shape
MaxVisits == 3
MaxGuides == 2

\* the visits of a trip: stops S1, S2 and the unknown S9 at times 5, 10, ...
VisitLists ==
    {[i \in DOMAIN ids |-> <<5 * i, ids[i]>>] :
        ids \in SeqsUpTo({"S1", "S2"}, MaxVisits) \cup {<<"S9">>, <<"S1", "S9">>}}

RoundTrips ==
    {[trip_id |-> "T1", shape_id |-> "A", stop_times |-> v] : v \in VisitLists}
    \cup {[trip_id |-> "T2", shape_id |-> NoShape,
           stop_times |-> << <<5, "S1">>, <<10, "S2">> >>]}

\* guides between the stops, before the first, after the second, out of
\* range, on the coordinate of S2 and of S1, and one as the loader returns it
RoundGuides ==
    {<<0, 70, 1>>, <<0, 20, 0>>, <<0, 160, 2>>, <<3, 3, 7>>,
     <<0, 150, 2>>, <<0, 0, 1>>, <<0, 70, 1, 0>>}

RoundGuideDicts ==
    {IF g = <<>> THEN NoDict ELSE [k \in {"A"} |-> g] :
        g \in SeqsUpTo(RoundGuides, MaxGuides)}

RoundInit ==
    /\ pc = "round"
    /\ \E trip \in RoundTrips, guides \in RoundGuideDicts :
          gen_in = [trips |-> <<trip>>, stops |-> StopsOk.rows, nogos |-> NoDict,
                    guides |-> guides, straights |-> NoDict]
    /\ gen_i = 0
    /\ seen = {}
    /\ emitted = <<>>
    /\ stops_csv = StopsOk /\ nogos_csv = FileMissing
    /\ guides_csv \in {FileMissing, GuidesOk}
    /\ pre = [stops |-> StopsOk, nogos |-> FileMissing, guides |-> guides_csv]
    /\ call = NoCall
    /\ result = NoResult
    /\ url_in = NoUrl
    /\ decoded = NoDecoded
    /\ cmd = NoCmd
    /\ straights_csv = FileMissing
    /\ loaded = NoLoaded

\* generate_brouter_urls on the one trip
RoundGenerate ==
    /\ pc = "round"
    /\ \E out \in {trip_url(gen_in.trips[1], gen_in.stops, gen_in.nogos,
                             gen_in.guides, gen_in.straights)} :
          IF out.kind = "raise"
          THEN pc' = "round_raised" /\ UNCHANGED <<gen_i, seen, emitted>>
          ELSE /\ gen_i' = 1
               /\ IF out.kind = "skip"
                  THEN pc' = "round_skipped" /\ UNCHANGED <<seen, emitted>>
                  ELSE /\ pc' = "round_emitted"
                       /\ seen' = {out.key}
                       /\ emitted' = << <<out.label, out.url>> >>
    /\ UNCHANGED <<gen_in, stops_csv, nogos_csv, guides_csv, call, pre, result>>
    /\ UNCHANGED <<codec_vars, cmd, load_vars>>

\* update_stop_positions_from_url on the emitted URL, unchanged
RoundReconcile ==
    /\ pc = "round_emitted"
    /\ \E paths \in PathChoices :
          \E out \in {update_stop_positions_from_url(emitted[1][2],
                        gen_in.trips[1].trip_id, gen_in.trips,
                        [stops |-> stops_csv, nogos |-> nogos_csv,
                         guides |-> guides_csv], paths, paths, {})} :
             /\ call' = [brouter_url |-> emitted[1][2],
                         trip_id |-> gen_in.trips[1].trip_id,
                         nogos_csv_path |-> paths, guides_csv_path |-> paths,
                         unwritable |-> {}]
             /\ result' = out.result
             /\ stops_csv' = out.stops
             /\ nogos_csv' = out.nogos
             /\ guides_csv' = out.guides
    /\ pc' = "round_done"
    /\ UNCHANGED <<pre, gen_in, gen_i, seen, emitted>>
    /\ UNCHANGED <<codec_vars, cmd, load_vars>>

RoundNext == RoundGenerate \/ RoundReconcile

SpecRound == RoundInit /\ [][RoundNext]_vars

-----------------------------------------------------------------------------
(* What the last call was given, read off its arguments *)

Done == pc = "done"

CallCoords == extract_coords_from_brouter_url(call.brouter_url)
CallGuidePois ==
    guide_pois_of(extract_pois_from_brouter_url(call.brouter_url))
CallDetected == detect_guides(CallGuidePois, CallCoords, {}, <<>>)
CallStopCoords ==
    SelectIdx(CallCoords, {g + 1 : g \in CallDetected.guide_indices}, 1)
TripKnown == \E t \in DOMAIN TRIPS : TRIPS[t].trip_id = call.trip_id
CallTrip ==
    TRIPS[MinOf({t \in DOMAIN TRIPS : TRIPS[t].trip_id = call.trip_id})]
CallVisits == SortedByField(CallTrip.stop_times, 1)

\* the URL has no scheme, no network location or not the router's
UrlRejected ==
    \/ urlparse_raises(call.brouter_url)
    \/ call.brouter_url.scheme = ""
    \/ call.brouter_url.netloc = <<>>
    \/ ~Contains(LowerText(call.brouter_url.netloc), RouterDomain)

TableBad ==
    pre.stops.kind # "ok" \/ ~(Range(required_columns) \subseteq pre.stops.columns)

\* the call gets as far as comparing the counts (line 429)
ReachedCountCheck ==
    ~UrlRejected /\ CallCoords # <<>> /\ TripKnown /\ ~TableBad

CountsDiffer == Len(CallStopCoords) # Len(CallVisits)

FilesUntouched ==
    /\ stops_csv = pre.stops
    /\ nogos_csv = pre.nogos
    /\ guides_csv = pre.guides

MismatchMessage == "Coordinate count mismatch after removing guide points"

InvalidUrlMessages ==
    {"URL validation failed", "Invalid URL format - missing scheme or domain",
     "URL does not appear to be a BRouter URL"}
NoCoordinatesMessage == "Could not extract coordinates from BRouter URL"
TripNotFoundMessage == "Trip not found"
StopTableMessages ==
    {"stops.csv file not found", "Could not read stops.csv",
     "stops.csv missing required columns"}

-----------------------------------------------------------------------------
\* C1: when the coordinates left after removing the detected guides are not
\* as many as the trip's stop visits, the call returns the count-mismatch
\* error with the four counts, changes no stop and writes no table.
C1_CountMismatch ==
    (Done /\ ReachedCountCheck /\ CountsDiffer) =>
        /\ ~result.raised
        /\ result.keys = {"error", "url_coords", "stop_coords", "trip_stops",
                          "detected_guides"}
        /\ result.error = MismatchMessage
        /\ result.url_coords = Len(CallCoords)
        /\ result.stop_coords = Len(CallStopCoords)
        /\ result.trip_stops = Len(CallVisits)
        /\ result.detected_guides = Len(CallDetected.detected_guides)
        /\ FilesUntouched

\* a mismatch that remains after a guide was removed, on a URL whose first
\* coordinate would have moved a stop and whose nogos would have been saved
C1_Witness ==
    /\ Done /\ ReachedCountCheck /\ CountsDiffer
    /\ result.error = MismatchMessage
    /\ result.detected_guides = 1
    /\ result.stop_coords < result.trip_stops
    /\ CallStopCoords # <<>> /\ CallStopCoords[1] = P2
    /\ call.nogos_csv_path /\ extract_nogos_from_brouter_url(call.brouter_url) # <<>>

\* C2: every structural error (invalid URL, no coordinates, unknown trip,
\* stop table unreadable or short of a column, count mismatch) is returned
\* with the three files as they were, none created.
C2_StructuralErrorsTouchNoFile ==
    /\ (Done /\ (~ReachedCountCheck \/ CountsDiffer)) =>
          ("error" \in result.keys /\ ~result.raised /\ FilesUntouched)
    /\ (Done /\ result.error \in InvalidUrlMessages \cup StopTableMessages
                   \cup {NoCoordinatesMessage, TripNotFoundMessage, MismatchMessage}) =>
          FilesUntouched

\* an unknown trip named with a URL and paths that would otherwise have
\* created both annotation files
C2_Witness ==
    /\ Done
    /\ result.error = TripNotFoundMessage
    /\ ~UrlRejected /\ CallGuidePois # <<>> /\ CallStopCoords # CallCoords
    /\ extract_nogos_from_brouter_url(call.brouter_url) # <<>>
    /\ call.nogos_csv_path /\ call.guides_csv_path /\ call.unwritable = {}
    /\ pre.stops = StopsOk /\ pre.nogos.kind = "missing" /\ nogos_csv.kind = "missing"

\* the stage a result stopped at
StageOfError(message) ==
    CASE message \in InvalidUrlMessages -> "validate"
      [] message = NoCoordinatesMessage -> "lonlats"
      [] message = TripNotFoundMessage -> "trip"
      [] message \in {"stops.csv file not found", "Could not read stops.csv"} -> "load"
      [] message = "stops.csv missing required columns" -> "columns"
      [] message = MismatchMessage -> "count"
      [] OTHER -> "save"

\* C3: the returned error is that of the first failing stage in the order
\* URL validation, lonlats, trip lookup, stop table, count check, and no
\* stage after the failing one is evaluated.
C3_FirstFailingStageDecides ==
    Done =>
        /\ UrlRejected => result.error \in InvalidUrlMessages
        /\ (~UrlRejected /\ CallCoords = <<>>) => result.error = NoCoordinatesMessage
        /\ (~UrlRejected /\ CallCoords # <<>> /\ ~TripKnown) =>
               result.error = TripNotFoundMessage
        /\ (~UrlRejected /\ CallCoords # <<>> /\ TripKnown /\ TableBad) =>
               result.error \in StopTableMessages
        /\ (ReachedCountCheck /\ CountsDiffer) => result.error = MismatchMessage
        /\ ("error" \in result.keys) =>
               result.stages = StagesUpTo(StageOfError(result.error))

\* an unknown trip and a missing stop table at once, on a valid URL: the trip
\* lookup comes first
C3_Witness ==
    /\ Done
    /\ ~UrlRejected /\ CallCoords # <<>> /\ ~TripKnown /\ TableBad
    /\ result.error = TripNotFoundMessage

-----------------------------------------------------------------------------
(* The host of a network location, as urllib's hostname gives it: the text  *)
(* after the last '@' and before the first ':' of it, in lower case.        *)

HostOf(netloc) ==
    LET ats == {i \in DOMAIN netloc : netloc[i] = "@"}
        hostinfo == IF ats = {} THEN netloc
                    ELSE SubSeq(netloc, MaxOf(ats) + 1, Len(netloc))
        colons == {i \in DOMAIN hostinfo : hostinfo[i] = ":"}
        hostname == IF colons = {} THEN hostinfo
                    ELSE SubSeq(hostinfo, 1, MinOf(colons) - 1)
    IN LowerText(hostname)

\* C4: validation rejects, before any extraction, every URL without a
\* scheme, without a host or whose host does not contain "brouter" (in any
\* case), and passes every URL with a scheme and a host containing it.
C4_HostDecidesValidation ==
    Done =>
        LET url == call.brouter_url
            good == /\ ~urlparse_raises(url)
                    /\ url.scheme # ""
                    /\ HostOf(url.netloc) # <<>>
                    /\ Contains(HostOf(url.netloc), RouterDomain)
        IN /\ good => result.error \notin InvalidUrlMessages
           /\ ~good => (result.error \in InvalidUrlMessages
                        /\ result.stages = <<"validate">>)

-----------------------------------------------------------------------------
(* The per-stop update records of a successful call *)

Succeeded == Done /\ ~result.raised /\ "updates" \in result.keys

Compared(u) == "error" \notin u.keys

\* the coordinate the table holds for stop sid in rows (its first row)
StoredIn(rows, sid) ==
    LET r == rows[MinOf({k \in DOMAIN rows : rows[k].stop_id = sid})]
    IN <<r.stop_lon, r.stop_lat>>

InTable(rows, sid) == \E k \in DOMAIN rows : rows[k].stop_id = sid

\* the coordinate stored for stop sid when record i is made: that of the
\* last earlier record of the stop that moved it, else the one on disk
StoredBefore(i, sid) ==
    LET movers == {j \in 1..(i - 1) : /\ result.updates[j].stop_id = sid
                                      /\ result.updates[j].moved}
    IN IF movers = {} THEN StoredIn(pre.stops.rows, sid)
       ELSE result.updates[MaxOf(movers)].new_coords

MovedRecords == {i \in DOMAIN result.updates : result.updates[i].moved}

\* the stop table on disk is the old one with every stop at the coordinate
\* its records left it
TableFollowsRecords ==
    /\ stops_csv.kind = pre.stops.kind
    /\ stops_csv.columns = pre.stops.columns
    /\ Len(stops_csv.rows) = Len(pre.stops.rows)
    /\ \A k \in DOMAIN stops_csv.rows :
          /\ stops_csv.rows[k].stop_id = pre.stops.rows[k].stop_id
          /\ stops_csv.rows[k].stop_name = pre.stops.rows[k].stop_name
          /\ <<stops_csv.rows[k].stop_lon, stops_csv.rows[k].stop_lat>> =
                LET sid == stops_csv.rows[k].stop_id
                    movers == {j \in MovedRecords : result.updates[j].stop_id = sid}
                IN IF movers = {}
                   THEN <<pre.stops.rows[k].stop_lon, pre.stops.rows[k].stop_lat>>
                   ELSE result.updates[MaxOf(movers)].new_coords

\* C5: the record of position i pairs the i-th stop-only coordinate with the
\* i-th visit; it is moved exactly when stored and new coordinate are more
\* than 1 m apart (exactly 1 m is no move); the table takes the new
\* coordinate exactly for the moved records; stops_moved and total_distance_m
\* count and sum the moved records.
C5_MovedIffFurtherThanOneMetre ==
    Succeeded =>
        /\ Len(result.updates) = Len(CallStopCoords)
        /\ \A i \in DOMAIN result.updates :
              LET u == result.updates[i]
              IN /\ u.stop_id = CallVisits[i][2]
                 /\ Compared(u) =>
                       /\ u.new_coords = CallStopCoords[i]
                       /\ u.old_coords = StoredBefore(i, u.stop_id)
                       /\ u.distance_m =
                             geodesic(<<u.old_coords[2], u.old_coords[1]>>,
                                      <<u.new_coords[2], u.new_coords[1]>>)
                       /\ u.moved <=> (u.distance_m > 1)
        /\ TableFollowsRecords
        /\ result.stops_moved = Cardinality(MovedRecords)
        /\ result.total_distance_m =
              SumSeq([i \in DOMAIN result.updates |->
                        IF result.updates[i].moved
                        THEN result.updates[i].distance_m ELSE 0])

\* one stop put exactly 1 m away and left where it was, another one moved
C5_Witness ==
    /\ Succeeded
    /\ \E i, j \in DOMAIN result.updates :
          /\ Compared(result.updates[i]) /\ Compared(result.updates[j])
          /\ result.updates[i].distance_m = 1 /\ ~result.updates[i].moved
          /\ result.updates[j].moved
          /\ StoredIn(stops_csv.rows, result.updates[i].stop_id) =
                StoredIn(pre.stops.rows, result.updates[i].stop_id)
          /\ StoredIn(stops_csv.rows, result.updates[j].stop_id) =
                result.updates[j].new_coords
    /\ stops_csv # pre.stops

\* the URL carries no GUIDE poi and exactly the stored coordinates of the
\* trip's visits, in visit order, and nothing keeps the call from its end
UnchangedUrl ==
    /\ Done /\ ~UrlRejected /\ TripKnown /\ ~TableBad
    /\ call.unwritable = {}
    /\ CallGuidePois = <<>>
    /\ Len(CallCoords) = Len(CallVisits)
    /\ \A i \in DOMAIN CallVisits :
          /\ InTable(pre.stops.rows, CallVisits[i][2])
          /\ CallCoords[i] = StoredIn(pre.stops.rows, CallVisits[i][2])

NothingMoved ==
    /\ Succeeded
    /\ result.stops_moved = 0
    /\ result.total_distance_m = 0
    /\ result.avg_distance_m = [num |-> 0, den |-> 1]

AverageIsGuarded ==
    Succeeded =>
        /\ result.avg_distance_m.den # 0
        /\ result.stops_moved = 0 => result.avg_distance_m = [num |-> 0, den |-> 1]
        /\ result.stops_moved > 0 =>
              result.avg_distance_m = [num |-> result.total_distance_m,
                                       den |-> result.stops_moved]

\* C6 as stated: a URL without GUIDE pois whose N coordinates are the stored
\* ones of the trip's N visits succeeds with nothing moved, for every N; and
\* the average is 0 when no stop moved, else total / moved.
C6_AnyUnchangedUrlSucceeds ==
    /\ UnchangedUrl => NothingMoved
    /\ AverageIsGuarded

\* C6, amended: the same for N >= 1 (with N = 0 the URL decodes to no
\* coordinate and the call ends with the no-coordinates error).
C6_UnchangedUrlSucceeds ==
    /\ (UnchangedUrl /\ Len(CallVisits) >= 1) => NothingMoved
    /\ AverageIsGuarded

\* the two stored coordinates of a two-stop trip, sent back unchanged
C6_Witness ==
    /\ UnchangedUrl /\ Len(CallVisits) = 2 /\ NothingMoved
    /\ Len(result.updates) = 2

\* C7: a visit whose stop is not in the stop table gets an error record and
\* the loop goes on: the result is a success with one record per visit, in
\* visit order, the other visits compared and, when moved, written.
C7_MissingStopDoesNotAbort ==
    (/\ Done /\ ReachedCountCheck /\ ~CountsDiffer
     /\ call.unwritable = {}
     /\ \E i \in DOMAIN CallVisits : ~InTable(pre.stops.rows, CallVisits[i][2])) =>
        /\ Succeeded
        /\ "error" \notin result.keys
        /\ result.total_stops = Len(CallVisits)
        /\ Len(result.updates) = Len(CallVisits)
        /\ \A i \in DOMAIN result.updates :
              LET u == result.updates[i]
              IN /\ u.stop_id = CallVisits[i][2]
                 /\ IF InTable(pre.stops.rows, u.stop_id)
                    THEN /\ Compared(u)
                         /\ u.new_coords = CallStopCoords[i]
                         /\ u.moved <=>
                               geodesic(<<u.old_coords[2], u.old_coords[1]>>,
                                        <<u.new_coords[2], u.new_coords[1]>>) > 1
                    ELSE /\ u.keys = {"stop_id", "error"}
                         /\ u.error = "Stop not found in stops.csv"
        /\ TableFollowsRecords

\* the first visit's stop is unknown and the second visit's stop is moved
C7_Witness ==
    /\ Succeeded
    /\ Len(result.updates) = 2
    /\ ~Compared(result.updates[1])
    /\ Compared(result.updates[2]) /\ result.updates[2].moved
    /\ StoredIn(stops_csv.rows, result.updates[2].stop_id) =
          result.updates[2].new_coords
    /\ stops_csv # pre.stops

-----------------------------------------------------------------------------
(* The annotation tables after a call *)

CallNogos == extract_nogos_from_brouter_url(call.brouter_url)

OfShape(rows, shape_id) == SelectSeq(rows, LAMBDA r : r.shape_id = shape_id)

OfOtherShapes(rows, shape_id) == SelectSeq(rows, LAMBDA r : r.shape_id # shape_id)

\* C8: after a successful call for a trip with a shape_id, a configured nogo
\* table holds for that shape exactly the nogos decoded from the URL and a
\* configured guide table exactly the guides detected in it, also when the
\* URL has none; the rows of the other shapes are as before.
C8_FullReplacementByShape ==
    (/\ Succeeded /\ call.unwritable = {}
     /\ CallTrip.shape_id # NoShape) =>
        LET shape_id == CallTrip.shape_id
            guides == CallDetected.detected_guides
            kept == OfShape(guides_csv.rows, shape_id)
        IN /\ (call.nogos_csv_path /\ pre.nogos.kind # "unreadable") =>
                 /\ OfShape(nogos_csv.rows, shape_id) =
                       [i \in DOMAIN CallNogos |->
                          NogoRow(shape_id, <<CallNogos[i][1], CallNogos[i][2]>>,
                                  CallNogos[i][3])]
                 /\ OfOtherShapes(nogos_csv.rows, shape_id) =
                       OfOtherShapes(pre.nogos.rows, shape_id)
           /\ (call.guides_csv_path /\ pre.guides.kind # "unreadable") =>
                 /\ [i \in DOMAIN kept |-> <<kept[i].stop_lon, kept[i].stop_lat>>] =
                       [i \in DOMAIN guides |-> <<guides[i][1], guides[i][2]>>]
                 /\ OfOtherShapes(guides_csv.rows, shape_id) =
                       OfOtherShapes(pre.guides.rows, shape_id)

\* the call computes the per-stop records and then a table cannot be written
WriteFails ==
    /\ Done /\ ReachedCountCheck /\ ~CountsDiffer
    /\ \/ "stops" \in call.unwritable
       \/ /\ "nogos" \in call.unwritable
          /\ call.nogos_csv_path /\ pre.nogos.kind # "unreadable"
          /\ CallNogos # <<>> /\ CallTrip.shape_id # NoShape
       \/ /\ "guides" \in call.unwritable
          /\ call.guides_csv_path /\ pre.guides.kind # "unreadable"
          /\ CallDetected.detected_guides # <<>> /\ CallTrip.shape_id # NoShape

\* C9: when the stop table, the nogo table or the guide table cannot be
\* written after the per-stop records were computed, the call returns a
\* result that reports the failure and still holds the records and the
\* move statistics.
C9_WriteFailureKeepsResult ==
    WriteFails =>
        /\ ~result.raised
        /\ {"updates", "stops_moved", "total_distance_m", "avg_distance_m"}
              \subseteq result.keys
        /\ Len(result.updates) = Len(CallVisits)
        /\ \/ "error" \in result.keys
           \/ "nogos_error" \in result.nogos_info.keys
           \/ "guides_error" \in result.guides_info.keys

-----------------------------------------------------------------------------
(* The lines the generator has emitted *)

GenOut(t) ==
    trip_url(gen_in.trips[t], gen_in.stops, gen_in.nogos, gen_in.guides,
             gen_in.straights)

\* the trips gone through that build a URL whose (shape_id, url) pair no
\* earlier trip builds
Firsts ==
    {t \in 1..gen_i :
        /\ GenOut(t).kind = "url"
        /\ \A u \in 1..(t - 1) :
              GenOut(u).kind = "url" =>
                 \/ gen_in.trips[u].shape_id # gen_in.trips[t].shape_id
                 \/ GenOut(u).url # GenOut(t).url}

NthFirst(k) == CHOOSE t \in Firsts : Cardinality({u \in Firsts : u <= t}) = k

\* C10: the lines emitted so far are, in trip order, one line for each
\* distinct (shape_id, url) pair, at the first trip that builds it: a later
\* trip with the same pair emits nothing, adjacent or not, and a trip of
\* another shape with the same URL text emits its own line.
C10_OneLinePerShapeAndUrl ==
    pc \in {"gen", "gen_done", "gen_raised"} =>
        emitted = [k \in 1..Cardinality(Firsts) |->
                      <<GenOut(NthFirst(k)).label, GenOut(NthFirst(k)).url>>]

\* shape A, shape C with the same URL text, then shape A again with the
\* same visits: two lines, for A and for C, with one URL
C10_Witness ==
    /\ pc = "gen_done"
    /\ Len(gen_in.trips) = 3
    /\ gen_in.trips[1].shape_id = "A" /\ gen_in.trips[2].shape_id = "C"
    /\ gen_in.trips[3].shape_id = "A"
    /\ gen_in.trips[3].trip_id # gen_in.trips[1].trip_id
    /\ Len(emitted) = 2
    /\ emitted[1][1] = "A" /\ emitted[2][1] = "C"
    /\ emitted[1][2] = emitted[2][2]

-----------------------------------------------------------------------------
(* The coordinates a trip's URL carries *)

\* the visits of trip t whose stop is in the stop table, by ascending time
ResolvableVisits(t) ==
    SelectSeq(SortedByField(gen_in.trips[t].stop_times, 1),
              LAMBDA st : InTable(gen_in.stops, st[2]))

\* their coordinates, longitude first
TripCoordinates(t) ==
    [i \in DOMAIN ResolvableVisits(t) |->
        StoredIn(gen_in.stops, ResolvableVisits(t)[i][2])]

\* the lonlats text of an emitted URL, as written
LonlatsWritten(url) ==
    LET part == url.fragment[CHOOSE i \in DOMAIN url.fragment :
                                 url.fragment[i].key = "lonlats"]
    IN [i \in DOMAIN part.value |-> <<part.value[i][1].n, part.value[i][2].n>>]

GuidesOfTrip(t) ==
    IF has_shape(gen_in.guides, gen_in.trips[t].shape_id)
    THEN gen_in.guides[gen_in.trips[t].shape_id] ELSE <<>>

GenRunning == pc \in {"gen", "gen_done", "gen_raised"}

\* C11: a trip without visits, or none of whose stops is in the stop table,
\* emits nothing; an unknown stop is left out and the rest of the trip is
\* emitted, its URL carrying the coordinates of the resolvable visits in
\* time order; a skipped trip does not keep the loop from the later trips.
C11_UnresolvedStopsAreSkipped ==
    GenRunning =>
        /\ \A k \in DOMAIN emitted :
              \E t \in 1..gen_i :
                 /\ TripCoordinates(t) # <<>>
                 /\ emitted[k][1] = GenOut(t).label
                 /\ GuidesOfTrip(t) = <<>> =>
                       LonlatsWritten(emitted[k][2]) = TripCoordinates(t)
        /\ \A t \in 1..gen_i :
              (TripCoordinates(t) # <<>> /\ GuidesOfTrip(t) = <<>>) =>
                 \E k \in DOMAIN emitted :
                    /\ emitted[k][1] = GenOut(t).label
                    /\ LonlatsWritten(emitted[k][2]) = TripCoordinates(t)
        /\ pc = "gen_done" => gen_i = Len(gen_in.trips)
        /\ pc = "gen_raised" => GuidesOfTrip(gen_i + 1) # <<>>

\* a trip without visits and a trip of unknown stops only, then a trip with
\* one unknown stop: one line, with the coordinate of its known stop
C11_Witness ==
    /\ pc = "gen_done"
    /\ Len(gen_in.trips) = 3
    /\ gen_in.trips[1].stop_times = <<>>
    /\ gen_in.trips[2].stop_times # <<>> /\ TripCoordinates(2) = <<>>
    /\ Len(gen_in.trips[3].stop_times) = 2 /\ Len(TripCoordinates(3)) = 1
    /\ Len(emitted) = 1
    /\ emitted[1][1] = gen_in.trips[3].shape_id
    /\ LonlatsWritten(emitted[1][2]) = TripCoordinates(3)

-----------------------------------------------------------------------------
(* Decoding the emitted URLs *)

\* the emitted URL has a pois parameter: a guide was inserted
HasPois(url) == \E i \in DOMAIN url.fragment : url.fragment[i].key = "pois"

\* s is t with some elements left out
IsSubsequence(s, t) ==
    \E drop \in SUBSET DOMAIN t : SelectIdx(t, drop, 1) = s

\* C12 as stated: for every trip with a resolvable stop, the lonlats decoded
\* from its emitted URL are exactly the coordinates of its time-sorted
\* resolvable visits.
C12_DecodeGivesStopCoordinates ==
    GenRunning =>
        \A k \in DOMAIN emitted :
            extract_coords_from_brouter_url(emitted[k][2]) =
                TripCoordinates(NthFirst(k))

\* C12, amended: that holds for every emitted URL into which no guide was
\* inserted; with guides inserted the got list is the trip's coordinate
\* sequence, in order, with one more coordinate for every GUIDE poi.
C12_DecodeGivesStopCoordinatesApartFromGuides ==
    GenRunning =>
        \A k \in DOMAIN emitted :
            LET url == emitted[k][2]
                got == extract_coords_from_brouter_url(url)
                coordinates == TripCoordinates(NthFirst(k))
            IN /\ ~HasPois(url) => got = coordinates
               /\ IsSubsequence(coordinates, got)
               /\ Len(got) =
                     Len(coordinates) + Len(extract_pois_from_brouter_url(url))

\* a trip whose visits are listed out of time order, emitted without guides
\* and got to its two coordinates in time order
C12_Witness ==
    /\ GenRunning
    /\ \E k \in DOMAIN emitted :
          LET t == NthFirst(k)
              got == extract_coords_from_brouter_url(emitted[k][2])
          IN /\ ~HasPois(emitted[k][2])
             /\ gen_in.trips[t].stop_times[1][1] > gen_in.trips[t].stop_times[2][1]
             /\ Len(got) = 2 /\ got[1] # got[2]
             /\ got = TripCoordinates(t)

-----------------------------------------------------------------------------
(* What the extractors return for the items of a parameter value *)

\* the text of parameter name in the URL, no items when it is not there
Written(name) ==
    IF Falsy(query_params_get(url_in, name)) THEN <<>>
    ELSE query_params_get(url_in, name)

Numeric(t) == t.k # "str"

WellFormedCoord(item) == Len(item) = 2 /\ Numeric(item[1]) /\ Numeric(item[2])

\* three numeric fields, the radius one that has an integer part
WellFormedNogo(item) ==
    Len(item) = 3 /\ Numeric(item[1]) /\ Numeric(item[2]) /\ item[3].k = "num"

WellFormedPoi(item) == Len(item) >= 3 /\ Numeric(item[1]) /\ Numeric(item[2])

WellFormedIndex(t) == t.k = "num"

\* C13: each extractor returns the well-formed items of its parameter, in
\* their order, and leaves out the malformed ones, whatever the other
\* items and the other parameters of the URL are.
C13_MalformedItemsAreDropped ==
    pc = "codec" =>
        LET lonlats == SelectSeq(Written("lonlats"), WellFormedCoord)
            nogos == SelectSeq(Written("nogos"), WellFormedNogo)
            pois == SelectSeq(Written("pois"), WellFormedPoi)
            straight == SelectSeq(straight_fields(Written("straight")),
                                  WellFormedIndex)
        IN /\ "lonlats" \in decoded.done =>
                 decoded.lonlats =
                    [i \in DOMAIN lonlats |-> <<lonlats[i][1].n, lonlats[i][2].n>>]
           /\ "nogos" \in decoded.done =>
                 decoded.nogos =
                    [i \in DOMAIN nogos |->
                        <<nogos[i][1].n, nogos[i][2].n, nogos[i][3].n>>]
           /\ "pois" \in decoded.done =>
                 decoded.pois =
                    [i \in DOMAIN pois |->
                        [lon |-> pois[i][1].n, lat |-> pois[i][2].n,
                         label |-> SubSeq(pois[i], 3, Len(pois[i]))]]
           /\ "straight" \in decoded.done =>
                 decoded.straight = [i \in DOMAIN straight |-> straight[i].n]

-----------------------------------------------------------------------------
(* What the command prints *)

\* C14: the command returns normally; for an invalid URL, a URL without
\* coordinates, an unknown trip, a malformed stop table and a count
\* mismatch it prints the labelled error line, and for a valid URL and a
\* known trip with matching counts it reaches the update stage and prints
\* the per-stop report.
C14_CommandReportsAndReturns ==
    pc = "command_done" =>
        /\ ~cmd.raised
        /\ (~ReachedCountCheck \/ CountsDiffer) => cmd.printed = <<"error">>
        /\ (ReachedCountCheck /\ ~CountsDiffer) =>
              (cmd.printed = <<"report">> /\ "update" \in Range(result.stages))

-----------------------------------------------------------------------------
(* Guide disambiguation *)

\* the pois of the URL labelled exactly GUIDE, in URL order
Candidates ==
    SelectSeq(extract_pois_from_brouter_url(call.brouter_url),
              LAMBDA p : p.label = <<Str("GUIDE")>>)

\* the distance of candidate j from the coordinate of (0-based) index i
CandidateDistance(cands, coords, j, i) ==
    geodesic(<<coords[i + 1][2], coords[i + 1][1]>>, <<cands[j].lat, cands[j].lon>>)

\* the matchings a greedy pass in candidate order can make: a[j] is the
\* (0-based) index candidate j claims, -1 when it is dropped
GreedyMatchings(cands, coords) ==
    {a \in [DOMAIN cands -> -1..(Len(coords) - 1)] :
        \A j \in DOMAIN cands :
            LET free == {i \in 0..(Len(coords) - 1) :
                            /\ \A h \in 1..(j - 1) : a[h] # i
                            /\ CandidateDistance(cands, coords, j, i) <= 100}
            IN IF free = {} THEN a[j] = -1
               ELSE /\ a[j] \in free
                    /\ \A i \in free :
                          CandidateDistance(cands, coords, j, a[j])
                             <= CandidateDistance(cands, coords, j, i)}

\* the indices claimed under matching a, in candidate order
IndicesClaimedBy(a) ==
    SelectSeq([j \in DOMAIN a |-> a[j]], LAMBDA i : i >= 0)

\* the coordinates claimed under matching a, in candidate order
ClaimedBy(coords, a) ==
    [k \in DOMAIN IndicesClaimedBy(a) |-> coords[IndicesClaimedBy(a)[k] + 1]]

\* the coordinates left to the stops under matching a, in URL order
LeftBy(coords, a) == SelectIdx(coords, {a[j] + 1 : j \in DOMAIN a}, 1)

GuideRowsWritten ==
    LET rows == OfShape(guides_csv.rows, CallTrip.shape_id)
    IN [k \in DOMAIN rows |-> <<rows[k].stop_lon, rows[k].stop_lat>>]

GuidesSaved ==
    /\ Succeeded /\ call.guides_csv_path /\ CallTrip.shape_id # NoShape
    /\ "guides_updated" \in result.guides_info.keys

\* C15: the detected guides are those of a greedy matching in candidate
\* order: every GUIDE poi in turn claims the nearest coordinate not claimed
\* before it and at most 100 m away, and is dropped when there is none; a
\* poi with another label is no candidate.  The count check, the per-stop
\* records and the guide rows written are those of the coordinates the
\* matching leaves and claims.
C15_GreedyGuideMatching ==
    (Done /\ ReachedCountCheck) =>
        \E cands \in {Candidates}, coords \in {CallCoords} :
        \E a \in GreedyMatchings(cands, coords) :
            /\ result.error = MismatchMessage =>
                  /\ result.detected_guides = Len(ClaimedBy(coords, a))
                  /\ result.stop_coords = Len(LeftBy(coords, a))
            /\ Succeeded =>
                  /\ Len(result.updates) = Len(LeftBy(coords, a))
                  /\ \A i \in DOMAIN result.updates :
                        Compared(result.updates[i]) =>
                           result.updates[i].new_coords = LeftBy(coords, a)[i]
            /\ GuidesSaved => GuideRowsWritten = ClaimedBy(coords, a)
            /\ (Succeeded /\ ~GuidesSaved) =>
                  (ClaimedBy(coords, a) = <<>> \/ ~call.guides_csv_path
                   \/ CallTrip.shape_id = NoShape
                   \/ "guides_error" \in result.guides_info.keys)

\* two GUIDE pois: the first claims the only coordinate within its reach,
\* which is the one the second lies on, and the second is dropped
C15_Witness ==
    /\ Done /\ ReachedCountCheck /\ GuidesSaved
    /\ Len(Candidates) = 2
    /\ CandidateDistance(Candidates, CallCoords, 1, 1) > 0
    /\ CandidateDistance(Candidates, CallCoords, 2, 1) = 0
    /\ GuideRowsWritten = <<CallCoords[2]>>
    /\ Len(result.updates) = Len(CallCoords) - 1

-----------------------------------------------------------------------------
(* The positions written to the guide table *)

PositionsWritten ==
    LET rows == OfShape(guides_csv.rows, CallTrip.shape_id)
    IN [k \in DOMAIN rows |-> rows[k].position]

\* C16: the position written for a guide claimed at index k is k minus the
\* number of other detected guides claimed at a smaller index, which is the
\* number of stop coordinates before the guide in the URL, whatever the
\* order of detection; the result reports the same positions.
C16_GuidePositionCountsStopsBefore ==
    GuidesSaved =>
        \E a \in GreedyMatchings(Candidates, CallCoords) :
            LET claimed == IndicesClaimedBy(a)
            IN /\ GuideRowsWritten = ClaimedBy(CallCoords, a)
               /\ Len(PositionsWritten) = Len(claimed)
               /\ \A k \in DOMAIN claimed :
                     /\ PositionsWritten[k] =
                           claimed[k] - Cardinality({h \in DOMAIN claimed :
                                                       claimed[h] < claimed[k]})
                     /\ PositionsWritten[k] =
                           Cardinality({i \in 0..(claimed[k] - 1) :
                                           i \notin Range(claimed)})
                     /\ result.guides_info.items[k][3] = PositionsWritten[k]

\* two guides, the one detected first claimed at the greater index, both
\* after the first stop: both are written with position 1
C16_Witness ==
    /\ GuidesSaved
    /\ Len(PositionsWritten) = 2
    /\ \E a \in GreedyMatchings(Candidates, CallCoords) :
          /\ Len(IndicesClaimedBy(a)) = 2
          /\ IndicesClaimedBy(a)[1] = 2 /\ IndicesClaimedBy(a)[2] = 1
    /\ PositionsWritten = <<1, 1>>

-----------------------------------------------------------------------------
(* Guides in the emitted URLs *)

\* the GUIDE pois of an emitted URL, as written
PoisWritten(url) ==
    IF ~HasPois(url) THEN <<>>
    ELSE LET part == url.fragment[CHOOSE i \in DOMAIN url.fragment :
                                      url.fragment[i].key = "pois"]
         IN [i \in DOMAIN part.value |-> <<part.value[i][1].n, part.value[i][2].n>>]

\* the guides of trip t with a position from 0 to the number of its stops
GuidesInRange(t) ==
    SelectSeq(GuidesOfTrip(t),
              LAMBDA g : 0 <= g[3] /\ g[3] <= Len(TripCoordinates(t)))

\* the identifier a trip's line is emitted under
LineLabel(t) ==
    IF gen_in.trips[t].shape_id # NoShape THEN gen_in.trips[t].shape_id
    ELSE gen_in.trips[t].trip_id

\* the loop has come to trip t, and the trip has a resolvable stop
TurnCame(t) ==
    /\ t <= gen_i \/ (t = gen_i + 1 /\ pc = "gen_raised")
    /\ TripCoordinates(t) # <<>>

\* C17: a guide is inserted exactly when its position is from 0 to the
\* length of the coordinate list when it is processed (which, the guides
\* being processed by descending position, is when it is from 0 to the
\* number of stops): the trip's URL has one coordinate and one GUIDE poi
\* more for each such guide and none for the others, a guide whose position
\* is the number of stops comes after the last stop, and the stops keep
\* their order.
C17_GuideInsertedIffPositionInRange ==
    GenRunning =>
        \A t \in DOMAIN gen_in.trips :
            TurnCame(t) =>
                \E k \in DOMAIN emitted :
                    LET written == LonlatsWritten(emitted[k][2])
                        pois == PoisWritten(emitted[k][2])
                        stops == TripCoordinates(t)
                        guides == GuidesOfTrip(t)
                    IN /\ emitted[k][1] = LineLabel(t)
                       /\ Len(written) = Len(stops) + Len(GuidesInRange(t))
                       /\ Len(pois) = Len(GuidesInRange(t))
                       /\ \A i \in DOMAIN guides :
                             (\E j \in DOMAIN pois :
                                 pois[j] = <<guides[i][1], guides[i][2]>>)
                                <=> (0 <= guides[i][3] /\ guides[i][3] <= Len(stops))
                       /\ \A i \in DOMAIN guides :
                             ~(0 <= guides[i][3] /\ guides[i][3] <= Len(stops)) =>
                                \A j \in DOMAIN written :
                                   written[j] # <<guides[i][1], guides[i][2]>>
                       /\ \A i \in DOMAIN guides :
                             guides[i][3] = Len(stops) =>
                                \E j \in DOMAIN written :
                                   /\ written[j] = <<guides[i][1], guides[i][2]>>
                                   /\ \A h \in j..Len(written) :
                                         \E g \in DOMAIN guides :
                                            written[h] = <<guides[g][1], guides[g][2]>>
                       /\ IsSubsequence(stops, written)

\* the guides of trip t with position p, by ascending order (the 4th field)
GuidesAt(t, p) ==
    LET at == SelectSeq(GuidesOfTrip(t), LAMBDA g : g[3] = p)
        sorted == SortedByField(at, 4)
    IN [i \in DOMAIN sorted |-> <<sorted[i][1], sorted[i][2]>>]

\* the stops of trip t with every in-range guide immediately before the stop
\* of its position, or after the last stop
StopsWithGuides(t) ==
    LET stops == TripCoordinates(t)
    IN Flatten([p \in 1..(Len(stops) + 1) |->
                   GuidesAt(t, p - 1)
                   \o (IF p <= Len(stops) THEN <<stops[p]>> ELSE <<>>)])

\* the shape of trip t has guides, in the loader's form
HasLoadedGuides(t) ==
    /\ GuidesOfTrip(t) # <<>>
    /\ \A i \in DOMAIN GuidesOfTrip(t) : Len(GuidesOfTrip(t)[i]) = 4

\* C18: with the guides as the loader returns them, (lon, lat, position,
\* order), a trip's URL has every in-range guide immediately before the stop
\* of its position (at the end for position = number of stops), guides of
\* one position by ascending order, and each inserted guide once among the
\* pois, labelled GUIDE.
C18_LoadedGuidesAreMerged ==
    GenRunning =>
        \A t \in DOMAIN gen_in.trips :
            (TurnCame(t) /\ HasLoadedGuides(t)) =>
                \E k \in DOMAIN emitted :
                    LET pois == extract_pois_from_brouter_url(emitted[k][2])
                    IN /\ emitted[k][1] = LineLabel(t)
                       /\ LonlatsWritten(emitted[k][2]) = StopsWithGuides(t)
                       /\ Len(pois) = Len(GuidesInRange(t))
                       /\ \A i \in DOMAIN GuidesInRange(t) :
                             Cardinality({j \in DOMAIN pois :
                                 /\ pois[j].lon = GuidesInRange(t)[i][1]
                                 /\ pois[j].lat = GuidesInRange(t)[i][2]
                                 /\ pois[j].label = <<Str("GUIDE")>>}) = 1

-----------------------------------------------------------------------------
(* The part of the URL the extractors read *)

HasFragment == url_in.fragment # <<>>

\* the URL with only the part that is the payload: the fragment when there
\* is one, else the query string
PayloadOnly ==
    IF HasFragment THEN [url_in EXCEPT !.query = <<>>]
    ELSE [url_in EXCEPT !.fragment = <<>>]

\* C19: each of the four extractors reads its parameter from the fragment
\* when the URL has one and from the query string only when it has none:
\* what it returns is what it returns for the URL without the other part,
\* so with a fragment the query string is never consulted, by any of them.
C19_FragmentBeforeQuery ==
    pc = "codec" =>
        /\ "lonlats" \in decoded.done =>
              decoded.lonlats = extract_coords_from_brouter_url(PayloadOnly)
        /\ "nogos" \in decoded.done =>
              decoded.nogos = extract_nogos_from_brouter_url(PayloadOnly)
        /\ "pois" \in decoded.done =>
              decoded.pois = extract_pois_from_brouter_url(PayloadOnly)
        /\ "straight" \in decoded.done =>
              decoded.straight = extract_straight_from_brouter_url(PayloadOnly)
        /\ (HasFragment /\ \A i \in DOMAIN url_in.fragment :
                              url_in.fragment[i].key = "map") =>
              /\ decoded.lonlats = <<>> /\ decoded.nogos = <<>>
              /\ decoded.pois = <<>> /\ decoded.straight = <<>>

\* a fragment with lonlats only before a query string with all four
\* parameters: the coordinates are the fragment's, and the nogos, pois and
\* straight indices of the query string are not read
C19_Witness ==
    /\ pc = "codec"
    /\ decoded.done = {"lonlats", "nogos", "pois", "straight"}
    /\ url_in.query = QueryPayload
    /\ url_in.fragment = Payload(GoodLonlats, None, None, None)
    /\ decoded.lonlats = << <<1, 2>>, <<3, 4>> >>
    /\ decoded.nogos = <<>> /\ decoded.pois = <<>> /\ decoded.straight = <<>>

-----------------------------------------------------------------------------
(* The annotation loaders.                                                 *)

WellFormedNogoRow(r) == IsInt(r.radius)

WellFormedGuideRow(r) == IsInt(r.position) /\ (r.order = NoCell \/ IsInt(r.order))

WellFormedStraightRow(r) == r.indices.text

RowsOf(file) == IF file.kind = "ok" THEN file.rows ELSE <<>>

\* the list is in ascending order of its fourth field
AscendingOrder(list) ==
    \A i, j \in DOMAIN list : i < j => list[i][4] <= list[j][4]

\* the same items, whatever their order
SameItems(a, b) ==
    /\ Len(a) = Len(b)
    /\ \A x \in Range(a) \cup Range(b) :
          Cardinality({i \in DOMAIN a : a[i] = x})
              = Cardinality({i \in DOMAIN b : b[i] = x})

\* C20: each annotation loader returns an empty mapping when its file is
\* absent; a malformed row (a radius or position that is not a number, an
\* indices cell that is not a string) is skipped alone, and the entries of
\* every well-formed row are returned grouped by shape id: the nogos of a
\* shape in row order, the guides of a shape in ascending order, the
\* parseable tokens of a straights cell without the unparseable ones.
C20_LoadersSkipMalformedRowsOnly ==
    pc = "load" =>
      /\ "nogos" \in loaded.done =>
            LET good == SelectSeq(RowsOf(nogos_csv), WellFormedNogoRow)
                want == GroupByShape(good)
            IN /\ DOMAIN loaded.nogos = DOMAIN want
               /\ \A shape_id \in DOMAIN want :
                     loaded.nogos[shape_id]
                         = [i \in DOMAIN want[shape_id] |-> nogo_item(want[shape_id][i])]
      /\ "guides" \in loaded.done =>
            LET good == SelectSeq(RowsOf(guides_csv), WellFormedGuideRow)
                rows == GroupByShape(good)
                want == [shape_id \in DOMAIN rows |->
                            [i \in DOMAIN rows[shape_id] |->
                                guide_item(rows[shape_id][i])]]
            IN /\ DOMAIN loaded.guides = DOMAIN want
               /\ \A shape_id \in DOMAIN want :
                     /\ SameItems(loaded.guides[shape_id], want[shape_id])
                     /\ AscendingOrder(loaded.guides[shape_id])
      /\ "straights" \in loaded.done =>
            LET good == SelectSeq(RowsOf(straights_csv), WellFormedStraightRow)
                shapes == {good[i].shape_id : i \in DOMAIN good}
            IN /\ DOMAIN loaded.straights = shapes
               /\ \A shape_id \in shapes :
                     \E i \in DOMAIN good :
                        /\ good[i].shape_id = shape_id
                        /\ LET kept == SelectSeq(good[i].indices.fields, IsInt)
                           IN loaded.straights[shape_id]
                                  = [k \in DOMAIN kept |-> kept[k].n]

-----------------------------------------------------------------------------
(* What guide disambiguation leaves *)

\* the (0-based) indices the detected guides claim, in order of detection
ClaimedIndices(det) ==
    [k \in DOMAIN det.detected_guides |-> det.detected_guides[k][3]]

\* the i-th smallest (i from 1) of a set of numbers
NthSmallest(S, i) == CHOOSE x \in S : Cardinality({y \in S : y < x}) = i - 1

\* C21: after guide disambiguation the claimed indices are pairwise distinct
\* indices of the decoded coordinate list, each detected guide holds the
\* coordinate at its index, there are at most as many detected guides as
\* GUIDE pois, and the stop-only list is the decoded list without the
\* claimed indices, in the same order, so its length is the number of
\* decoded coordinates less the number of detected guides; the counts of the
\* mismatch error and the records of a successful call are those of that
\* list.
C21_DisambiguationLeavesTheOtherCoordinates ==
    (Done /\ ReachedCountCheck) =>
        \E det \in {CallDetected}, coords \in {CallCoords}, stops \in {CallStopCoords} :
            LET claimed == ClaimedIndices(det)
                left == (0..(Len(coords) - 1)) \ Range(claimed)
            IN /\ \A k \in DOMAIN claimed : claimed[k] \in 0..(Len(coords) - 1)
               /\ \A j, k \in DOMAIN claimed : j # k => claimed[j] # claimed[k]
               /\ det.guide_indices = Range(claimed)
               /\ \A k \in DOMAIN claimed :
                     <<det.detected_guides[k][1], det.detected_guides[k][2]>>
                         = coords[claimed[k] + 1]
               /\ Len(claimed) <= Len(CallGuidePois)
               /\ Len(stops) = Len(coords) - Len(claimed)
               /\ Len(stops) = Cardinality(left)
               /\ \A i \in DOMAIN stops : stops[i] = coords[NthSmallest(left, i) + 1]
               /\ result.error = MismatchMessage =>
                     /\ result.url_coords = Len(coords)
                     /\ result.detected_guides = Len(claimed)
                     /\ result.stop_coords = result.url_coords - result.detected_guides
               /\ Succeeded =>
                     /\ Len(result.updates) = Len(coords) - Len(claimed)
                     /\ \A i \in DOMAIN result.updates :
                           Compared(result.updates[i]) =>
                              result.updates[i].new_coords
                                  = coords[NthSmallest(left, i) + 1]

\* three coordinates and two GUIDE pois: the guides claim the first and the
\* last coordinate, and the one between them is the only stop coordinate
C21_Witness ==
    /\ Done /\ ReachedCountCheck /\ Succeeded
    /\ Len(CallCoords) = 3
    /\ ClaimedIndices(CallDetected) = <<0, 2>>
    /\ Len(result.updates) = 1
    /\ result.updates[1].new_coords = CallCoords[2]

-----------------------------------------------------------------------------
(* A stop visited more than once *)

\* the coordinate held for stop sid once the first i visits are applied one
\* after another, each compared with the coordinate the visits before it left
RECURSIVE CurrentAfter(_, _)
CurrentAfter(sid, i) ==
    IF i = 0 THEN StoredIn(pre.stops.rows, sid)
    ELSE LET before == CurrentAfter(sid, i - 1)
             new == CallStopCoords[i]
         IN IF /\ CallVisits[i][2] = sid
               /\ geodesic(<<before[2], before[1]>>, <<new[2], new[1]>>) > 1
            THEN new ELSE before

\* the stops of the table that the trip visits more than once
VisitedAgain ==
    {sid \in {CallVisits[i][2] : i \in DOMAIN CallVisits} :
        /\ InTable(pre.stops.rows, sid)
        /\ Cardinality({i \in DOMAIN CallVisits : CallVisits[i][2] = sid}) > 1}

\* C22: the visits of a stop that the trip visits more than once are applied
\* one after another in time order to the table being changed: the old
\* coordinate reported for a visit is the coordinate the visits before it
\* left (not the one on disk before the call), the visit is moved exactly
\* when its new coordinate is more than 1 m from that one, and the
\* coordinate written for the stop is the new coordinate of the last such
\* visit.
C22_RepeatedVisitsAreAppliedInTurn ==
    Succeeded =>
        \A sid \in VisitedAgain :
            /\ \A i \in DOMAIN result.updates :
                  result.updates[i].stop_id = sid =>
                     /\ Compared(result.updates[i])
                     /\ result.updates[i].old_coords = CurrentAfter(sid, i - 1)
                     /\ result.updates[i].moved
                            <=> (CurrentAfter(sid, i) # CurrentAfter(sid, i - 1))
            /\ StoredIn(stops_csv.rows, sid) = CurrentAfter(sid, Len(CallVisits))
            /\ LET movers == {i \in DOMAIN result.updates :
                                 /\ result.updates[i].stop_id = sid
                                 /\ result.updates[i].distance_m > 1}
               IN StoredIn(stops_csv.rows, sid) =
                     IF movers = {} THEN StoredIn(pre.stops.rows, sid)
                     ELSE result.updates[MaxOf(movers)].new_coords

\* a stop visited twice: the first visit moves it 150 m away and the second
\* puts it back where the disk had it, which counts as a move since it is
\* compared with the coordinate the first visit left
C22_Witness ==
    /\ Succeeded
    /\ VisitedAgain # {}
    /\ Len(result.updates) = 2
    /\ result.updates[1].moved /\ result.updates[2].moved
    /\ result.updates[2].old_coords = result.updates[1].new_coords
    /\ result.updates[2].old_coords # StoredIn(pre.stops.rows, result.updates[2].stop_id)
    /\ result.updates[2].new_coords = StoredIn(pre.stops.rows, result.updates[2].stop_id)
    /\ stops_csv = pre.stops

-----------------------------------------------------------------------------
(* Generator and reconciler on an unedited URL *)

\* the generator has had its turn
Generated == pc \in {"round_raised", "round_skipped", "round_emitted", "round_done"}

\* the guides of the trip's shape whose position is in range, as
\* (lon, lat, position)
InsertedGuides ==
    [i \in DOMAIN GuidesInRange(1) |->
        <<GuidesInRange(1)[i][1], GuidesInRange(1)[i][2], GuidesInRange(1)[i][3]>>]

\* every stop id of the trip resolves, and its shape has a guide in range
RoundTripCase ==
    /\ Generated
    /\ gen_in.trips[1].stop_times # <<>>
    /\ Len(TripCoordinates(1)) = Len(gen_in.trips[1].stop_times)
    /\ InsertedGuides # <<>>

\* the guide rows of the trip's shape in guides.csv, as (lon, lat, position)
RoundGuideRows ==
    LET rows == OfShape(guides_csv.rows, gen_in.trips[1].shape_id)
    IN [k \in DOMAIN rows |-> <<rows[k].stop_lon, rows[k].stop_lat, rows[k].position>>]

\* C23: for a trip whose stop ids all resolve and whose shape has guides in
\* range, the generator emits a URL, and the reconciler given that URL
\* unchanged, with the same trips and stop table, succeeds without a count
\* mismatch, reports no stop moved and leaves the stop table as it was,
\* detects exactly the inserted guides, and writes each guide with the
\* position it was generated from.
C23_ReconcilerInvertsGenerator ==
    RoundTripCase =>
        /\ pc \in {"round_emitted", "round_done"}
        /\ pc = "round_done" =>
              /\ ~result.raised /\ "updates" \in result.keys
              /\ result.total_stops = Len(gen_in.trips[1].stop_times)
              /\ result.stops_moved = 0
              /\ stops_csv = pre.stops
              /\ SameItems([k \in DOMAIN CallDetected.detected_guides |->
                               <<CallDetected.detected_guides[k][1],
                                 CallDetected.detected_guides[k][2]>>],
                           [k \in DOMAIN InsertedGuides |->
                               <<InsertedGuides[k][1], InsertedGuides[k][2]>>])
              /\ call.guides_csv_path =>
                    /\ "guides_updated" \in result.guides_info.keys
                    /\ SameItems(RoundGuideRows, InsertedGuides)
                    /\ SameItems(result.guides_info.items, InsertedGuides)

-----------------------------------------------------------------------------
(* What a successful call leaves of the stop table *)

\* the visits of stop sid that find it more than 1 m from where the visits
\* before them left it
MovingVisits(sid) ==
    {i \in DOMAIN CallVisits :
        /\ CallVisits[i][2] = sid
        /\ LET before == CurrentAfter(sid, i - 1)
               new == CallStopCoords[i]
           IN geodesic(<<before[2], before[1]>>, <<new[2], new[1]>>) > 1}

\* C24: a successful call changes nothing of the stop table but the
\* longitude and latitude of stops that the trip visits and that are moved
\* more than 1 m: the table has the same rows in the same order with the
\* same ids and names, a stop that is not visited or is moved at most 1 m
\* keeps its coordinates, and a changed stop holds the coordinate of its
\* last moving visit.
C24_OnlyMovedStopsChange ==
    Succeeded =>
        /\ stops_csv.kind = pre.stops.kind
        /\ stops_csv.columns = pre.stops.columns
        /\ Len(stops_csv.rows) = Len(pre.stops.rows)
        /\ \A k \in DOMAIN pre.stops.rows :
              LET old == pre.stops.rows[k]
                  new == stops_csv.rows[k]
                  moving == MovingVisits(old.stop_id)
              IN /\ new.stop_id = old.stop_id
                 /\ new.stop_name = old.stop_name
                 /\ moving = {} =>
                       (new.stop_lon = old.stop_lon /\ new.stop_lat = old.stop_lat)
                 /\ moving # {} =>
                       <<new.stop_lon, new.stop_lat>> = CallStopCoords[MaxOf(moving)]

\* one stop of the table is moved by the trip's only visit, the other is
\* not visited and is written back as it was
C24_Witness ==
    /\ Succeeded
    /\ Len(CallVisits) = 1
    /\ \E j, k \in DOMAIN pre.stops.rows :
          /\ stops_csv.rows[j].stop_id = CallVisits[1][2]
          /\ <<stops_csv.rows[j].stop_lon, stops_csv.rows[j].stop_lat>>
                # <<pre.stops.rows[j].stop_lon, pre.stops.rows[j].stop_lat>>
          /\ stops_csv.rows[k].stop_id # CallVisits[1][2]
          /\ stops_csv.rows[k] = pre.stops.rows[k]

=============================================================================
